---------------------------- MODULE Spec2Model ----------------------------
(***************************************************************************)
(* The UR reader of psbt-utils (URReader, multi-part variant): the scan    *)
(* reassembly controller around handleQRResult, with startScanning,        *)
(* stopScanning and clearResults, and the URDecoder it consumes.  The      *)
(* single-scan variants of the reader that preceded it are not modelled;   *)
(* their prefix test is kept as HasUrPrefixExact for comparison.           *)
(*                                                                         *)
(* Strings are sequences of one-character strings, so that the prefix      *)
(* test, the part-marker regular expression and parseInt are computed as   *)
(* the code computes them.  Numbers that the code keeps as doubles         *)
(* (progress) are exact rationals <<numerator, denominator>>.              *)
(***************************************************************************)
EXTENDS Integers, Sequences, FiniteSets, Bags, TLC

(***************************************************************************)
(* Bounds of the model.                                                    *)
(***************************************************************************)
\* handleQRResult runs that may be suspended at the await at the same time
MaxInflight == 1
\* the same bounds where invocations are let overlap
OverlapInflight == 2
OverlapStarts == 2
\* startScanning invocations in progress, plus scanners left running unreferenced
MaxStarts == 1
\* handleQRResult runs suspended at once in a session shown the ten parts of
\* one message
TenInflight == 1

(***************************************************************************)
(* Strings.                                                                *)
(***************************************************************************)
LowerLetters == <<"a","b","c","d","e","f","g","h","i","j","k","l","m",
                  "n","o","p","q","r","s","t","u","v","w","x","y","z">>
UpperLetters == <<"A","B","C","D","E","F","G","H","I","J","K","L","M",
                  "N","O","P","Q","R","S","T","U","V","W","X","Y","Z">>
DigitChars == <<"0","1","2","3","4","5","6","7","8","9">>
HexChars == <<"0","1","2","3","4","5","6","7","8","9","a","b","c","d","e","f">>

IndexIn(c, table) == CHOOSE i \in 1..Len(table) : table[i] = c
Occurs(c, table) == \E i \in 1..Len(table) : table[i] = c

\* String.prototype.toUpperCase, one character
UpperChar(c) == IF Occurs(c, LowerLetters) THEN UpperLetters[IndexIn(c, LowerLetters)] ELSE c
LowerChar(c) == IF Occurs(c, UpperLetters) THEN LowerLetters[IndexIn(c, UpperLetters)] ELSE c
ToUpperCase(s) == [i \in 1..Len(s) |-> UpperChar(s[i])]
ToLowerCase(s) == [i \in 1..Len(s) |-> LowerChar(s[i])]
\* String.prototype.startsWith
StartsWith(s, p) == Len(s) >= Len(p) /\ SubSeq(s, 1, Len(p)) = p

IsDigit(c) == Occurs(c, DigitChars)
AllDigits(s, from, to) == from <= to /\ \A i \in from..to : IsDigit(s[i])

RECURSIVE ParseIntFrom(_, _)
ParseIntFrom(digits, acc) ==
    IF digits = <<>> THEN acc
    ELSE ParseIntFrom(Tail(digits), acc * 10 + (IndexIn(Head(digits), DigitChars) - 1))
\* parseInt(digits, 10) of a non-empty run of decimal digits
ParseInt(digits) == ParseIntFrom(digits, 0)

RECURSIVE DigitsOf(_)
\* Number.prototype.toString() of a natural number
DigitsOf(n) ==
    IF n < 10 THEN <<DigitChars[n + 1]>>
    ELSE DigitsOf(n \div 10) \o <<DigitChars[(n % 10) + 1]>>

(***************************************************************************)
(* The part marker: the regular expression /\/(\d+)-(\d+)\// of            *)
(* handleQRResult.  A match is <<i, j, k>>: "/" at i, digits, "-" at j,    *)
(* digits, "/" at k.  The engine returns the leftmost one.                 *)
(***************************************************************************)
Positions(s, c) == {i \in 1..Len(s) : s[i] = c}
MarkerMatches(s) ==
    {m \in Positions(s, "/") \X Positions(s, "-") \X Positions(s, "/") :
        /\ m[1] < m[2] /\ m[2] < m[3]
        /\ AllDigits(s, m[1] + 1, m[2] - 1)
        /\ AllDigits(s, m[2] + 1, m[3] - 1)}
\* /\/\d+-\d+\//.test(qrData)
\* a test that takes any slash for the marker
IsMultiPartURAnySlash(s) == Positions(s, "/") # {}
IsMultiPartUR(s) == MarkerMatches(s) # {}
LeftmostMatch(s) == CHOOSE m \in MarkerMatches(s) : \A o \in MarkerMatches(s) : m[1] <= o[1]
\* parseInt(match[2], 10) of qrData.match(/\/(\d+)-(\d+)\//)
TotalParts(s) == LET m == LeftmostMatch(s) IN ParseInt(SubSeq(s, m[2] + 1, m[3] - 1))
\* the total as the handler has it: <<totalParts>>, or <<>> when match is null
TotalMatch(s) == IF MarkerMatches(s) = {} THEN <<>> ELSE <<TotalParts(s)>>

\* qrData.toUpperCase().startsWith('UR:')
UrPrefixUpper == <<"U","R",":">>
\* a check that looks for the letters anywhere in the text
HasUrAnywhere(s) == \E i \in 1..Len(s) - 1 : ToUpperCase(s)[i] = "U" /\ ToUpperCase(s)[i + 1] = "R"
\* the check of the single-scan readers: qrData.startsWith('ur:')
HasUrPrefixExact(s) == StartsWith(s, <<"u","r",":">>)
HasUrPrefix(s) == StartsWith(ToUpperCase(s), UrPrefixUpper)

(***************************************************************************)
(* Rationals: <<n, d>> with d > 0, in lowest terms.                        *)
(***************************************************************************)
RECURSIVE GCD(_, _)
GCD(a, b) == IF b = 0 THEN a ELSE GCD(b, a % b)
Rat(n, d) == IF n = 0 THEN <<0, 1>> ELSE <<n \div GCD(n, d), d \div GCD(n, d)>>
RLeq(x, y) == x[1] * y[2] <= y[1] * x[2]
RLess(x, y) == x[1] * y[2] < y[1] * x[2]
RMin(x, y) == IF RLeq(x, y) THEN x ELSE y
Zero == <<0, 1>>
Hundred == <<100, 1>>

\* the share of the parts still missing, in the place of the share scanned
FallbackProgressRemaining(newPartsCount, match) ==
    IF match = <<>> THEN Zero
    ELSE IF match[1] = 0 \/ newPartsCount >= match[1] THEN Zero
    ELSE Rat((match[1] - newPartsCount) * 100, match[1])
\* the share without its cap at 100: Math.max in the place of Math.min
FallbackProgressMax(newPartsCount, match) ==
    IF match = <<>> THEN Zero
    ELSE IF match[1] = 0 THEN Hundred
    ELSE IF RLeq(Rat(newPartsCount * 100, match[1]), Hundred) THEN Hundred
    ELSE Rat(newPartsCount * 100, match[1])
\* if (match) estimatedProgress = Math.min((newPartsCount / totalParts) * 100, 100),
\* and 0 as initialised otherwise; a zero total divides to Infinity, whose
\* minimum with 100 is 100
FallbackProgress(newPartsCount, match) ==
    IF match = <<>> THEN Zero
    ELSE IF match[1] = 0 THEN Hundred
    ELSE RMin(Rat(newPartsCount * 100, match[1]), Hundred)

(***************************************************************************)
(* The UR codec (the foundation-ur-py package, consumed through its        *)
(* declared interface).  A part reads ur:<type>/<i>-<n>/<body>, in either  *)
(* letter case; the decoder collects the parts 1..n of one message and     *)
(* completes when it holds them all: with success when the message         *)
(* verifies, with failure when it does not.  A body holding "z" stands for *)
(* a part whose data was damaged: the assembled message then fails its     *)
(* checksum.                                                               *)
(***************************************************************************)
UrPrefixLower == <<"u","r",":">>
TypePsbt == <<"c","r","y","p","t","o","-","p","s","b","t">>
TypeBytes == <<"b","y","t","e","s">>
DamagedChar == "z"

SetMin(S) == CHOOSE x \in S : \A y \in S : x <= y
SetMax(S) == CHOOSE x \in S : \A y \in S : x >= y

NoPart == [ok |-> FALSE, type |-> <<>>, idx |-> 0, total |-> 0, body |-> <<>>]
DecoderParse(text) ==
    LET s == ToLowerCase(text)
        slashes == Positions(s, "/")
    IN  IF ~StartsWith(s, UrPrefixLower) \/ Cardinality(slashes) # 2 THEN NoPart
        ELSE LET a == SetMin(slashes)
                 b == SetMax(slashes)
                 dashes == {j \in (a + 1)..(b - 1) : s[j] = "-"}
             IN  IF a <= 4 \/ b >= Len(s) \/ Cardinality(dashes) # 1 THEN NoPart
                 ELSE LET j == SetMin(dashes)
                      IN  IF ~AllDigits(s, a + 1, j - 1) \/ ~AllDigits(s, j + 1, b - 1)
                          THEN NoPart
                          ELSE [ok |-> TRUE,
                                type |-> SubSeq(s, 4, a - 1),
                                idx |-> ParseInt(SubSeq(s, a + 1, j - 1)),
                                total |-> ParseInt(SubSeq(s, j + 1, b - 1)),
                                body |-> SubSeq(s, b + 1, Len(s))]

\* new URDecoder(), and the null of urDecoderRef
NewDecoder == [exists |-> TRUE, type |-> <<>>, total |-> 0, parts |-> {}, done |-> "no"]
NullDecoder == [exists |-> FALSE, type |-> <<>>, total |-> 0, parts |-> {}, done |-> "no"]

BodyAt(parts, i) == (CHOOSE p \in parts : p.idx = i).body
RECURSIVE JoinBodies(_, _, _)
JoinBodies(parts, i, total) ==
    IF i > total THEN <<>> ELSE BodyAt(parts, i) \o JoinBodies(parts, i + 1, total)
MessageVerifies(msg) == \A i \in 1..Len(msg) : msg[i] # DamagedChar

\* the decoder after receivePart(text)
DecoderReceive(d, text) ==
    LET p == DecoderParse(text)
    IN  IF ~p.ok \/ d.done # "no" \/ p.total = 0 \/ p.idx < 1 \/ p.idx > p.total THEN d
        ELSE IF d.total # 0 /\ (d.total # p.total \/ d.type # p.type) THEN d
        ELSE IF \E q \in d.parts : q.idx = p.idx THEN d
        ELSE LET parts == d.parts \cup {[idx |-> p.idx, body |-> p.body]}
                 full == Cardinality(parts) = p.total
             IN  [exists |-> TRUE, type |-> p.type, total |-> p.total, parts |-> parts,
                  done |-> IF ~full THEN "no"
                           ELSE IF MessageVerifies(JoinBodies(parts, 1, p.total))
                                THEN "success" ELSE "failure"]

\* whether the promise of receivePart(text) may reject: only for a text the
\* codec cannot read as a part
ReceiveMayReject(text) == ~DecoderParse(text).ok

DecoderIsComplete(d) == d.done # "no"
DecoderIsSuccess(d) == d.done = "success"
\* the bytes the codec decodes a body to
ByteOf(c) == (IndexIn(c, LowerLetters) * 37) % 256
\* resultMessage(): the UR {type, cbor} of a successful decoder
ResultMessage(d) ==
    LET msg == JoinBodies(d.parts, 1, d.total)
    IN  [type |-> d.type, cbor |-> [i \in 1..Len(msg) |-> ByteOf(msg[i])]]
\* resultError(): the reason of a failed decoder
ResultError(d) ==
    <<"I", "n", "v", "a", "l", "i", "d", " ", "c", "h", "e", "c", "k", "s",
      "u", "m">>
\* estimatedPercentComplete(): a fraction in 0..1, at most the share of the
\* message's parts the decoder holds
EstimateChoices(d) ==
    IF d.done # "no" THEN {<<1, 1>>}
    ELSE IF d.total = 0 THEN {Zero}
    ELSE {Rat(Cardinality(d.parts), 2 * d.total), Rat(Cardinality(d.parts), d.total)}

(***************************************************************************)
(* The QR codes the camera may be shown.  Part(type, i, n, body) is the    *)
(* text of part i of n as the codec's encoder writes it.                   *)
(***************************************************************************)
Part(type, i, n, body) ==
    UrPrefixLower \o type \o <<"/">> \o DigitsOf(i) \o <<"-">> \o DigitsOf(n) \o <<"/">> \o body

NotAUrCode == <<"n","o","t","-","a","-","u","r","-","c","o","d","e">>
\* a marker but no scheme prefix
ForeignMarked == <<"x","/","1","-","2","/","a">>
\* prefix and marker, but no type and no body: not a part the codec can read
Unreadable == <<"u","r",":","/","1","-","2","/">>
\* a single-part UR, in upper case as QR alphanumeric mode carries it
SinglePart == <<"U","R",":","B","Y","T","E","S","/","a","b">>
\* a part that declares a total of zero
ZeroTotal == <<"u","r",":","b","y","t","e","s","/","1","-","0","/","c">>

\* the two parts of a crypto-psbt message, and a foreign code
ScenarioPsbt == {Part(TypePsbt, 1, 2, <<"a">>), Part(TypePsbt, 2, 2, <<"b">>), NotAUrCode}
\* the first part in both letter cases
ScenarioCase == {Part(TypePsbt, 1, 2, <<"a">>), ToUpperCase(Part(TypePsbt, 1, 2, <<"a">>))}
\* a damaged one-part message, a part the codec cannot read, a single-part UR
ScenarioDamaged == {Part(TypePsbt, 1, 1, <<DamagedChar>>), Unreadable, SinglePart}
\* a message of another type, a zero total, a foreign code with a marker
ScenarioOther == {Part(TypeBytes, 1, 1, <<"c">>), ZeroTotal, ForeignMarked}
\* the ten parts of one crypto-psbt message, and three of them
TenBodies == <<"a","b","c","d","e","f","g","h","i","j">>
TenParts == {Part(TypePsbt, i, Len(TenBodies), <<TenBodies[i]>>) : i \in 1..Len(TenBodies)}
ScenarioThree == {Part(TypePsbt, i, Len(TenBodies), <<TenBodies[i]>>) : i \in {1, 4, 10}}
Scenarios == {ScenarioPsbt, ScenarioCase, ScenarioDamaged, ScenarioOther, ScenarioThree}

(***************************************************************************)
(* State.                                                                  *)
(***************************************************************************)
VARIABLES
    visible,        \* the QR texts the camera may be shown (environment)
    hasEstimate,    \* whether URDecoder exposes estimatedPercentComplete
    isScanning,     \* useState(false)
    decodedData,    \* useState<string | null>(null)
    error,          \* useState<string | null>(null)
    cameraError,    \* useState<string | null>(null)
    progress,       \* useState<number>(0)
    partsCount,     \* useState<number>(0)
    isMultiPart,    \* useState<boolean>(false)
    qrScannerRef,   \* useRef<QrScanner | null>: "null", or the state of the scanner
                    \* it holds: "created" (start() pending), "running", "failed"
    urDecoderRef,   \* useRef<URDecoder | null>: the decoder object
    scannedPartsRef,\* useRef<Set<string>>
    leaked,         \* bag of the states of the scanners alive but no longer referenced
    starts,         \* bag of the startScanning invocations in progress, by the await
                    \* each is suspended at
    streams,        \* the MediaStreams of the permission probe with a track not stopped
    inflight,       \* bag of the handleQRResult runs suspended at the await
    limits,         \* the bounds this behaviour is explored under, and whether the
                    \* history variables stopped and seen are kept
    mounted,        \* whether the component is mounted
    fed,            \* history: the texts passed to receivePart in this session
    stopped,        \* history: stopScanning has returned since startScanning was last called
    seen,           \* history: the texts scanned before a clearResults of this camera session
    last,           \* history: whether the last operation skipped a text as scanned
    sighashType,    \* the argument of formatSighashFlag
    flag,           \* what formatSighashFlag returned for it, empty before the call
    startClicked,   \* history: Start Camera of src/components/URReader.tsx was clicked
    activeTab,      \* App: useState<'psbt' | 'read'>('psbt')
    url,            \* window.location: the search parameters tool and psbt
    effects,        \* the components whose mount effect has not run yet
    tabChanged,     \* history: handleTabChange has been called
    psbtInput,      \* PSBTEncoder: useState('')
    encodedParts,   \* PSBTEncoder: useState<string[]>([])
    qrCodes,        \* PSBTEncoder: useState<string[]>([])
    loading,        \* PSBTEncoder: useState(false)
    encoderError,   \* PSBTEncoder: its useState<string | null>(null) named error
    currentQrIndex, \* PSBTEncoder: useState(0), counted from 0 as in the source
    isAnimating,    \* PSBTEncoder: useState(false)
    decodedPsbt,    \* PSBTEncoder: useState<any>(null), by the text it was decoded from
    autoEncode,     \* the argument of the pending setTimeout of the encoder's mount effect
    encodes         \* bag of the encodePSBT / autoEncodePSBT runs suspended at an await

vars == <<visible, hasEstimate, isScanning, decodedData, error, cameraError,
          progress, partsCount, isMultiPart, qrScannerRef,
          urDecoderRef, scannedPartsRef, leaked, starts, inflight, limits, mounted, fed,
          stopped, seen, last, streams, sighashType, flag, startClicked,
          activeTab, url, effects, tabChanged, psbtInput, encodedParts, qrCodes, loading,
          encoderError, currentQrIndex, isAnimating, decodedPsbt, autoEncode, encodes>>

\* the state of the reader component, and the state outside it
reader == <<visible, hasEstimate, isScanning, decodedData, error, cameraError,
            progress, partsCount, isMultiPart, qrScannerRef,
            urDecoderRef, scannedPartsRef, leaked, starts, inflight, limits, mounted, fed,
            stopped, seen, last, streams>>
app == <<activeTab, url, effects, tabChanged>>
encoder == <<psbtInput, encodedParts, qrCodes, loading, encoderError, currentQrIndex,
             isAnimating, decodedPsbt, autoEncode, encodes>>
aside == <<sighashType, flag, startClicked>>
outside == <<aside, app, encoder>>

\* The messages, character by character; null is the empty text.
NoError == [kind |-> "none", detail |-> <<>>]
\* 'Not a valid UR format. QR code should start with "ur:"'
FormatErrorText ==
    <<"N", "o", "t", " ", "a", " ", "v", "a", "l", "i", "d", " ", "U", "R",
      " ", "f", "o", "r", "m", "a", "t", ".", " ", "Q", "R", " ", "c", "o",
      "d", "e", " ", "s", "h", "o", "u", "l", "d", " ", "s", "t", "a", "r",
      "t", " ", "w", "i", "t", "h", " ", "\"", "u", "r", ":", "\"">>
FormatError == [kind |-> "format", detail |-> FormatErrorText]
DecodingFailedPrefix ==
    <<"D", "e", "c", "o", "d", "i", "n", "g", " ", "f", "a", "i", "l", "e",
      "d", ":", " ">>
\* an error that shows the codec's reason alone
DecodeFailedBare(errorMsg) == [kind |-> "decodeFailed", detail |-> errorMsg]
\* `Decoding failed: ${errorMsg}`
DecodeFailed(errorMsg) ==
    [kind |-> "decodeFailed", detail |-> DecodingFailedPrefix \o errorMsg]
PartErrorPrefix ==
    <<"E", "r", "r", "o", "r", " ", "p", "r", "o", "c", "e", "s", "s", "i",
      "n", "g", " ", "U", "R", " ", "p", "a", "r", "t", ":", " ">>
\* err.message of a rejected receivePart, and of the TypeError of a null decoder
RejectedMessage ==
    <<"r", "e", "j", "e", "c", "t", "e", "d">>
NullMessage ==
    <<"n", "u", "l", "l">>
\* `Error processing UR part: ${err.message}`
PartError(message) == [kind |-> "partError", detail |-> PartErrorPrefix \o message]

\* cameraError
NoCameraError == <<>>
NoCameraFound ==
    <<"N", "o", " ", "c", "a", "m", "e", "r", "a", " ", "f", "o", "u", "n",
      "d", " ", "o", "n", " ", "t", "h", "i", "s", " ", "d", "e", "v", "i",
      "c", "e">>
PermissionDenied ==
    <<"C", "a", "m", "e", "r", "a", " ", "p", "e", "r", "m", "i", "s", "s",
      "i", "o", "n", " ", "d", "e", "n", "i", "e", "d", ".", " ", "P", "l",
      "e", "a", "s", "e", " ", "a", "l", "l", "o", "w", " ", "c", "a", "m",
      "e", "r", "a", " ", "a", "c", "c", "e", "s", "s", " ", "a", "n", "d",
      " ", "t", "r", "y", " ", "a", "g", "a", "i", "n", ".">>
VideoNotReady ==
    <<"V", "i", "d", "e", "o", " ", "e", "l", "e", "m", "e", "n", "t", " ",
      "n", "o", "t", " ", "r", "e", "a", "d", "y">>
\* `Failed to start camera: ${startErr.message}`, the message being 'Unknown error'
FailedToStart ==
    <<"F", "a", "i", "l", "e", "d", " ", "t", "o", " ", "s", "t", "a", "r",
      "t", " ", "c", "a", "m", "e", "r", "a", ":", " ", "U", "n", "k", "n",
      "o", "w", "n", " ", "e", "r", "r", "o", "r">>

NoData == [kind |-> "none", type |-> <<>>, data |-> <<>>, len |-> 0]
\* setDecodedData(qrData)
RawData(qrData) == [kind |-> "raw", type |-> <<>>, data |-> qrData, len |-> Len(qrData)]

\* b.toString(16), without the padding
ByteToHexUnpadded(b) ==
    IF b < 16 THEN <<HexChars[b + 1]>>
    ELSE <<HexChars[(b \div 16) + 1], HexChars[(b % 16) + 1]>>
\* b.toString(16).padStart(2, '0')
ByteToHex(b) ==
    IF b < 16 THEN <<"0", HexChars[b + 1]>>
    ELSE <<HexChars[(b \div 16) + 1], HexChars[(b % 16) + 1]>>
RECURSIVE HexJoin(_)
\* Array.from(cbor).map(...).join('')
HexJoin(bytes) == IF bytes = <<>> THEN <<>> ELSE ByteToHex(Head(bytes)) \o HexJoin(Tail(bytes))
\* the string shown for a decoded UR: the hex of the bytes for crypto-psbt,
\* the byte count alone for any other type
SuccessData(result) ==
    IF result.type = TypePsbt
    THEN [kind |-> "hex", type |-> result.type, data |-> HexJoin(result.cbor),
          len |-> Len(result.cbor)]
    ELSE [kind |-> "length", type |-> result.type, data |-> <<>>, len |-> Len(result.cbor)]

\* whether the last operation was a scan that was skipped as already scanned
NoScan == "other"
Skipped == "skipped"

\* bags as functions to positive counts
Count(bag, x) == IF x \in DOMAIN bag THEN bag[x] ELSE 0
Put(bag, x) == bag (+) SetToBag({x})
Take(bag, x) == bag (-) SetToBag({x})

(***************************************************************************)
(* formatSighashFlag (psbtUtils.ts).                                       *)
(***************************************************************************)
MaxSighash == 255
\* a & b on non-negative integers
RECURSIVE BitAnd(_, _)
BitAnd(a, b) ==
    IF a = 0 \/ b = 0 THEN 0
    ELSE (a % 2) * (b % 2) + 2 * BitAnd(a \div 2, b \div 2)
\* n.toString(16)
RECURSIVE NumberToString16(_)
NumberToString16(n) ==
    IF n < 16 THEN <<HexChars[n + 1]>>
    ELSE NumberToString16(n \div 16) \o <<HexChars[(n % 16) + 1]>>
SIGHASH_ALL == 1
SIGHASH_NONE == 2
SIGHASH_SINGLE == 3
SIGHASH_ANYONECANPAY == 128
SighashAllText ==
    <<"S", "I", "G", "H", "A", "S", "H", "_", "A", "L", "L">>
SighashNoneText ==
    <<"S", "I", "G", "H", "A", "S", "H", "_", "N", "O", "N", "E">>
SighashSingleText ==
    <<"S", "I", "G", "H", "A", "S", "H", "_", "S", "I", "N", "G", "L", "E">>
AnyoneCanPayText ==
    <<"|", "A", "N", "Y", "O", "N", "E", "C", "A", "N", "P", "A", "Y">>
Number(n) == [defined |-> TRUE, value |-> n]
\* a formatter that compares the whole value with the base types
formatSighashFlagWholeValue(t) ==
    IF ~t.defined THEN <<"-">>
    ELSE LET anyoneCanPay == BitAnd(t.value, SIGHASH_ANYONECANPAY) # 0
             name == IF t.value = SIGHASH_ALL THEN SighashAllText
                     ELSE IF t.value = SIGHASH_NONE THEN SighashNoneText
                     ELSE IF t.value = SIGHASH_SINGLE THEN SighashSingleText
                     ELSE <<"0", "x">> \o NumberToString16(t.value)
         IN  IF anyoneCanPay THEN name \o AnyoneCanPayText ELSE name
formatSighashFlag(t) ==
    IF ~t.defined THEN <<"-">>
    ELSE LET base == BitAnd(t.value, 31)
             anyoneCanPay == BitAnd(t.value, SIGHASH_ANYONECANPAY) # 0
             name == IF base = SIGHASH_ALL THEN SighashAllText
                     ELSE IF base = SIGHASH_NONE THEN SighashNoneText
                     ELSE IF base = SIGHASH_SINGLE THEN SighashSingleText
                     ELSE <<"0", "x">> \o NumberToString16(t.value)
         IN  IF anyoneCanPay THEN name \o AnyoneCanPayText ELSE name

\* formatSighashFlag not called
Undefined == [defined |-> FALSE, value |-> 0]
NoFlag == <<>>

\* a search parameter of the URL: searchParams.get gives null or the text
NoParam == [present |-> FALSE, value |-> <<>>]
Param(text) == [present |-> TRUE, value |-> text]
NoUrl == [tool |-> NoParam, psbt |-> NoParam]

\* the encoder as constructed
NoEncoderError == "null"
NoDecodedPsbt == [decoded |-> FALSE, raw |-> <<>>]
NoTimer == [pending |-> FALSE, psbtFromUrl |-> <<>>]
EncoderConstructed ==
    /\ psbtInput = <<>>
    /\ encodedParts = <<>>
    /\ qrCodes = <<>>
    /\ loading = FALSE
    /\ encoderError = NoEncoderError
    /\ currentQrIndex = 0
    /\ isAnimating = FALSE
    /\ decodedPsbt = NoDecodedPsbt
    /\ autoEncode = NoTimer
    /\ encodes = EmptyBag

\* the page opened without search parameters, the mount effects done
AppIdle ==
    /\ activeTab = "psbt"
    /\ url = NoUrl
    /\ effects = {}
    /\ tabChanged = FALSE
    /\ EncoderConstructed

OutsideIdle ==
    /\ sighashType = Undefined
    /\ flag = NoFlag
    /\ startClicked = FALSE
    /\ AppIdle

ReaderInit(shown, bounds) ==
    /\ visible = shown
    /\ limits = bounds
    /\ hasEstimate \in BOOLEAN
    /\ isScanning = FALSE
    /\ decodedData = NoData
    /\ error = NoError
    /\ cameraError = NoCameraError
    /\ progress = Zero
    /\ partsCount = 0
    /\ isMultiPart = FALSE
    /\ qrScannerRef = "null"
    /\ urDecoderRef = NullDecoder
    /\ scannedPartsRef = {}
    /\ leaked = EmptyBag
    /\ starts = EmptyBag
    /\ inflight = EmptyBag
    /\ fed = EmptyBag
    /\ mounted = TRUE
    /\ stopped = FALSE
    /\ seen = {}
    /\ last = NoScan
    /\ streams = 0

InitWith(shown, bounds) == ReaderInit(shown, bounds) /\ OutsideIdle

Init == \E shown \in Scenarios : InitWith(shown, [inflight |-> MaxInflight, starts |-> MaxStarts, history |-> FALSE])

(***************************************************************************)
(* stopScanning: stop and destroy the scanner of qrScannerRef, if any, and *)
(* clear isScanning.  The decoder and the scanned parts are kept.          *)
(***************************************************************************)
StopScanner ==
    /\ qrScannerRef' = "null"
    /\ isScanning' = FALSE
    /\ stopped' = (limits.history \/ stopped)

\* a stop that also drops the session, as clearResults does
StopScanningResets ==
    /\ last' = NoScan
    /\ mounted
    /\ isScanning
    /\ StopScanner
    /\ urDecoderRef' = [urDecoderRef EXCEPT !.exists = FALSE]
    /\ scannedPartsRef' = {}
    /\ UNCHANGED <<visible, hasEstimate, seen, mounted, decodedData, error, cameraError, 
                   progress, partsCount, isMultiPart,
                   leaked, starts, inflight, limits, fed>>
    /\ UNCHANGED streams
    /\ UNCHANGED outside

\* the Stop Camera button (disabled unless isScanning)
StopScanning ==
    /\ last' = NoScan
    /\ mounted
    /\ isScanning
    /\ StopScanner
    /\ UNCHANGED <<visible, hasEstimate, seen, mounted, decodedData, error, cameraError, 
                   progress, partsCount, isMultiPart, urDecoderRef, scannedPartsRef,
                   leaked, starts, inflight, limits, fed>>
    /\ UNCHANGED streams
    /\ UNCHANGED outside

(***************************************************************************)
(* handleQRResult(qrData), up to its await on receivePart.  A running      *)
(* scanner calls it for a code in view and does not await the promise it   *)
(* returns.                                                                *)
(***************************************************************************)
\* a guard that recognises no text as scanned
AlreadyScannedNever(parts, qrData) == FALSE
\* a guard that looks up the lower-case form of the text
AlreadyScannedLowered(parts, qrData) == ToLowerCase(qrData) \in parts
\* scannedPartsRef.current.has(qrData)
AlreadyScanned(parts, qrData) == qrData \in parts
\* a decoder constructed anew for every part
DecoderForPartAlwaysNew(d) == NewDecoder
\* the decoder that receives the part: the session's, or a new one
DecoderForPart(d) == IF d.exists THEN d ELSE NewDecoder
\* a run suspended at the await, with what the rest of the handler reads of
\* its text: the match of the marker (qrData.match of line 523) and whether
\* the codec may reject the part
Suspended(qrData) ==
    [match |-> TotalMatch(qrData), mayReject |-> ReceiveMayReject(qrData), stale |-> FALSE]
ScannerRunning == qrScannerRef = "running" \/ Count(leaked, "running") > 0

\* a handler that stops the scanner on a text without the prefix, as the
\* single-scan readers do
HandleQRResultStopsOnReject(qrData) ==
    /\ ScannerRunning
    /\ qrData \in visible
    /\ IF ~HasUrPrefix(qrData)
       THEN /\ error' = FormatError
            /\ last' = NoScan
            /\ StopScanner
            /\ UNCHANGED <<decodedData, progress, isMultiPart,
                           urDecoderRef, scannedPartsRef, inflight, limits, fed>>
       ELSE IF AlreadyScanned(scannedPartsRef, qrData)
       THEN /\ error' = NoError
            /\ last' = Skipped
            /\ UNCHANGED <<stopped, isScanning, decodedData, progress, isMultiPart, qrScannerRef,
                           urDecoderRef, scannedPartsRef, inflight, limits, fed>>
       ELSE IF IsMultiPartUR(qrData)
       THEN /\ BagCardinality(inflight) < limits.inflight
            /\ error' = NoError
            /\ last' = NoScan
            /\ scannedPartsRef' = scannedPartsRef \cup {qrData}
            /\ isMultiPart' = TRUE
            /\ urDecoderRef' = DecoderReceive(DecoderForPart(urDecoderRef), qrData)
            /\ fed' = Put(fed, qrData)
            /\ inflight' = Put(inflight, Suspended(qrData))
            /\ UNCHANGED <<stopped, isScanning, decodedData, progress, qrScannerRef>>
       ELSE /\ error' = NoError
            /\ last' = NoScan
            /\ scannedPartsRef' = scannedPartsRef \cup {qrData}
            /\ isMultiPart' = FALSE
            /\ decodedData' = RawData(qrData)
            /\ progress' = Hundred
            /\ StopScanner
            /\ UNCHANGED <<urDecoderRef, inflight, limits, fed>>
    /\ UNCHANGED <<visible, hasEstimate, seen, mounted, limits, cameraError, partsCount, leaked,
                   starts>>
    /\ UNCHANGED streams
    /\ UNCHANGED outside

\* a handler whose single-part path keeps the last text only
HandleQRResultKeepsLast(qrData) ==
    /\ ScannerRunning
    /\ qrData \in visible
    /\ IF ~HasUrPrefix(qrData)
       THEN /\ error' = FormatError
            /\ last' = NoScan
            /\ UNCHANGED <<stopped, isScanning, decodedData, progress, isMultiPart, qrScannerRef,
                           urDecoderRef, scannedPartsRef, inflight, limits, fed>>
       ELSE IF AlreadyScanned(scannedPartsRef, qrData)
       THEN /\ error' = NoError
            /\ last' = Skipped
            /\ UNCHANGED <<stopped, isScanning, decodedData, progress, isMultiPart, qrScannerRef,
                           urDecoderRef, scannedPartsRef, inflight, limits, fed>>
       ELSE IF IsMultiPartUR(qrData)
       THEN /\ BagCardinality(inflight) < limits.inflight
            /\ error' = NoError
            /\ last' = NoScan
            /\ scannedPartsRef' = scannedPartsRef \cup {qrData}
            /\ isMultiPart' = TRUE
            /\ urDecoderRef' = DecoderReceive(DecoderForPart(urDecoderRef), qrData)
            /\ fed' = Put(fed, qrData)
            /\ inflight' = Put(inflight, Suspended(qrData))
            /\ UNCHANGED <<stopped, isScanning, decodedData, progress, qrScannerRef>>
       ELSE /\ error' = NoError
            /\ last' = NoScan
            /\ scannedPartsRef' = {qrData}
            /\ isMultiPart' = FALSE
            /\ decodedData' = RawData(qrData)
            /\ progress' = Hundred
            /\ StopScanner
            /\ UNCHANGED <<urDecoderRef, inflight, limits, fed>>
    /\ UNCHANGED <<visible, hasEstimate, seen, mounted, limits, cameraError, partsCount, leaked,
                   starts>>
    /\ UNCHANGED streams
    /\ UNCHANGED outside

HandleQRResult(qrData) ==
    /\ ScannerRunning
    /\ qrData \in visible
    /\ IF ~HasUrPrefix(qrData)
       THEN /\ error' = FormatError
            /\ last' = NoScan
            /\ UNCHANGED <<stopped, isScanning, decodedData, progress, isMultiPart, qrScannerRef,
                           urDecoderRef, scannedPartsRef, inflight, limits, fed>>
       ELSE IF AlreadyScanned(scannedPartsRef, qrData)
       THEN /\ error' = NoError
            /\ last' = Skipped
            /\ UNCHANGED <<stopped, isScanning, decodedData, progress, isMultiPart, qrScannerRef,
                           urDecoderRef, scannedPartsRef, inflight, limits, fed>>
       ELSE IF IsMultiPartUR(qrData)
       THEN /\ BagCardinality(inflight) < limits.inflight
            /\ error' = NoError
            /\ last' = NoScan
            /\ scannedPartsRef' = scannedPartsRef \cup {qrData}
            /\ isMultiPart' = TRUE
            /\ urDecoderRef' = DecoderReceive(DecoderForPart(urDecoderRef), qrData)
            /\ fed' = Put(fed, qrData)
            /\ inflight' = Put(inflight, Suspended(qrData))
            /\ UNCHANGED <<stopped, isScanning, decodedData, progress, qrScannerRef>>
       ELSE /\ error' = NoError
            /\ last' = NoScan
            /\ scannedPartsRef' = scannedPartsRef \cup {qrData}
            /\ isMultiPart' = FALSE
            /\ decodedData' = RawData(qrData)
            /\ progress' = Hundred
            /\ StopScanner
            /\ UNCHANGED <<urDecoderRef, inflight, limits, fed>>
    /\ UNCHANGED <<visible, hasEstimate, seen, mounted, limits, cameraError, partsCount, leaked,
                   starts>>
    /\ UNCHANGED streams
    /\ UNCHANGED outside

(***************************************************************************)
(* handleQRResult after the await: the promise of receivePart has settled. *)
(***************************************************************************)
\* estimatedPercentComplete() * 100
TimesHundred(e) == Rat(e[1] * 100, e[2])
\* an estimate that never asks the decoder
EstimatedProgressCountOnly(exposes, threw, e, newPartsCount, match) ==
    FallbackProgress(newPartsCount, match)
\* the estimate of lines 516-538: the decoder's when it exposes one and the
\* call returns, the count of scanned texts over the declared total otherwise
EstimatedProgress(exposes, threw, e, newPartsCount, match) ==
    IF exposes /\ ~threw THEN TimesHundred(e)
    ELSE FallbackProgress(newPartsCount, match)

\* what estimatedPercentComplete may do when called: <<threw, value>>
EstimateAnswers(d) ==
    IF ~hasEstimate \/ ~d.exists THEN {<<FALSE, Zero>>}
    ELSE IF DecoderIsComplete(d) THEN {<<FALSE, e>> : e \in EstimateChoices(d)}
    ELSE {<<TRUE, Zero>>} \cup {<<FALSE, e>> : e \in EstimateChoices(d)}

\* a test that takes an estimate of 100 for completion
SessionCompleteAtHundred(d, estimatedProgress) ==
    DecoderIsComplete(d) \/ estimatedProgress = Hundred
\* if (urDecoderRef.current.isComplete()) of line 543
SessionComplete(d, estimatedProgress) == DecoderIsComplete(d)

\* a completion that leaves the scanner running when decoding failed
CompleteSessionKeepsScanning(d) ==
    /\ progress' = Hundred
    /\ IF DecoderIsSuccess(d)
       THEN /\ decodedData' = SuccessData(ResultMessage(d))
            /\ StopScanner
            /\ UNCHANGED error
       ELSE /\ error' = DecodeFailed(ResultError(d))
            /\ UNCHANGED <<decodedData, stopped, isScanning, qrScannerRef>>
\* lines 544-567: the decoder is complete
CompleteSession(d) ==
    /\ progress' = Hundred
    /\ StopScanner
    /\ IF DecoderIsSuccess(d)
       THEN /\ decodedData' = SuccessData(ResultMessage(d))
            /\ UNCHANGED error
       ELSE /\ error' = DecodeFailed(ResultError(d))
            /\ UNCHANGED decodedData

\* a handler for which a rejected part ends the scan, as a failed decoding does
ResumeHandlerStopsOnReject(run, rejected, threw, e) ==
    LET newPartsCount == Cardinality(scannedPartsRef)
        d == urDecoderRef
    IN  /\ last' = NoScan
        /\ Count(inflight, run) > 0
        /\ rejected => run.mayReject
        /\ inflight' = Take(inflight, run)
        /\ IF rejected
           THEN \* catch (err) of line 569
                /\ error' = PartError(RejectedMessage)
                /\ StopScanner
                /\ UNCHANGED <<decodedData, progress, partsCount>>
           ELSE IF ~d.exists
           THEN \* urDecoderRef.current is null: the TypeError is caught at line 569
                /\ partsCount' = newPartsCount
                /\ error' = PartError(NullMessage)
                /\ UNCHANGED <<stopped, isScanning, decodedData, progress, qrScannerRef>>
           ELSE LET estimatedProgress ==
                        EstimatedProgress(hasEstimate, threw, e, newPartsCount, run.match)
                IN  /\ partsCount' = newPartsCount
                    /\ IF ~SessionComplete(d, estimatedProgress)
                       THEN /\ progress' = estimatedProgress
                            /\ UNCHANGED <<stopped, isScanning, decodedData, error, qrScannerRef>>
                       ELSE CompleteSession(d)
        /\ UNCHANGED <<visible, hasEstimate, seen, mounted, cameraError, isMultiPart,
                       urDecoderRef, scannedPartsRef, leaked, starts, limits, fed>>
        /\ UNCHANGED streams
        /\ UNCHANGED outside

ResumeHandler(run, rejected, threw, e) ==
    LET newPartsCount == Cardinality(scannedPartsRef)
        d == urDecoderRef
    IN  /\ last' = NoScan
        /\ Count(inflight, run) > 0
        /\ rejected => run.mayReject
        /\ inflight' = Take(inflight, run)
        /\ IF rejected
           THEN \* catch (err) of line 569
                /\ error' = PartError(RejectedMessage)
                /\ UNCHANGED <<stopped, isScanning, decodedData, progress, partsCount, qrScannerRef>>
           ELSE IF ~d.exists
           THEN \* urDecoderRef.current is null: the TypeError is caught at line 569
                /\ partsCount' = newPartsCount
                /\ error' = PartError(NullMessage)
                /\ UNCHANGED <<stopped, isScanning, decodedData, progress, qrScannerRef>>
           ELSE LET estimatedProgress ==
                        EstimatedProgress(hasEstimate, threw, e, newPartsCount, run.match)
                IN  /\ partsCount' = newPartsCount
                    /\ IF ~SessionComplete(d, estimatedProgress)
                       THEN /\ progress' = estimatedProgress
                            /\ UNCHANGED <<stopped, isScanning, decodedData, error, qrScannerRef>>
                       ELSE CompleteSession(d)
        /\ UNCHANGED <<visible, hasEstimate, seen, mounted, cameraError, isMultiPart,
                       urDecoderRef, scannedPartsRef, leaked, starts, limits, fed>>
        /\ UNCHANGED streams
        /\ UNCHANGED outside

(***************************************************************************)
(* clearResults (the Clear Results button, disabled unless there is a      *)
(* result or an error), and the session reset both it and startScanning do.*)
(***************************************************************************)
Stale(run) == [run EXCEPT !.stale = TRUE]
\* a reset that forgets to clear the scanned parts
ResetSessionKeepsParts ==
    /\ decodedData' = NoData
    /\ error' = NoError
    /\ progress' = Zero
    /\ partsCount' = 0
    /\ isMultiPart' = FALSE
    /\ urDecoderRef' = NullDecoder
    /\ UNCHANGED scannedPartsRef
    /\ fed' = EmptyBag
    /\ inflight' = [r \in {Stale(x) : x \in DOMAIN inflight} |->
                      Count(inflight, r) + Count(inflight, [r EXCEPT !.stale = FALSE])]
\* a reset that keeps the decoder
ResetSessionKeepsDecoder ==
    /\ decodedData' = NoData
    /\ error' = NoError
    /\ progress' = Zero
    /\ partsCount' = 0
    /\ isMultiPart' = FALSE
    /\ UNCHANGED urDecoderRef
    /\ scannedPartsRef' = {}
    /\ fed' = EmptyBag
    /\ inflight' = [r \in {Stale(x) : x \in DOMAIN inflight} |->
                      Count(inflight, r) + Count(inflight, [r EXCEPT !.stale = FALSE])]
ResetSession ==
    /\ decodedData' = NoData
    /\ error' = NoError
    /\ progress' = Zero
    /\ partsCount' = 0
    /\ isMultiPart' = FALSE
    /\ urDecoderRef' = NullDecoder
    /\ scannedPartsRef' = {}
    /\ fed' = EmptyBag
    /\ inflight' = [r \in {Stale(x) : x \in DOMAIN inflight} |->
                      Count(inflight, r) + Count(inflight, [r EXCEPT !.stale = FALSE])]

ClearResults ==
    /\ last' = NoScan
    /\ mounted
    /\ decodedData # NoData \/ error # NoError
    /\ ResetSession
    /\ seen' = IF limits.history THEN seen \cup scannedPartsRef ELSE seen
    /\ UNCHANGED <<visible, hasEstimate, stopped, mounted, limits, isScanning, cameraError, 
                   qrScannerRef, leaked, starts>>
    /\ UNCHANGED streams
    /\ UNCHANGED outside

(***************************************************************************)
(* startScanning (the Start Camera button, disabled while isScanning): it  *)
(* resets the session, then awaits QrScanner.hasCamera(), getUserMedia, a  *)
(* 200 ms timer and the scanner's start().                                 *)
(***************************************************************************)
\* a start that leaves the session for later
StartScanningKeepsSession ==
    /\ last' = NoScan
    /\ mounted
    /\ ~isScanning
    /\ BagCardinality(starts) + BagCardinality(leaked) < limits.starts
    /\ UNCHANGED <<decodedData, error, progress, partsCount, isMultiPart, urDecoderRef,
                   scannedPartsRef, fed, inflight>>
    /\ stopped' = FALSE
    /\ seen' = {}
    /\ cameraError' = NoCameraError
    /\ starts' = Put(starts, "hasCamera")
    /\ UNCHANGED <<visible, hasEstimate, mounted, limits, isScanning, qrScannerRef, leaked>>
    /\ UNCHANGED streams
    /\ UNCHANGED outside

StartScanning ==
    /\ last' = NoScan
    /\ mounted
    /\ ~isScanning
    /\ BagCardinality(starts) + BagCardinality(leaked) < limits.starts
    /\ ResetSession
    /\ stopped' = FALSE
    /\ seen' = {}
    /\ cameraError' = NoCameraError
    /\ starts' = Put(starts, "hasCamera")
    /\ UNCHANGED <<visible, hasEstimate, mounted, limits, isScanning, qrScannerRef, leaked>>
    /\ UNCHANGED streams
    /\ UNCHANGED outside

\* QrScanner.hasCamera() has answered
StartHasCamera(hasCamera) ==
    /\ last' = NoScan
    /\ Count(starts, "hasCamera") > 0
    /\ IF ~hasCamera
       THEN /\ cameraError' = NoCameraFound
            /\ starts' = Take(starts, "hasCamera")
            /\ UNCHANGED qrScannerRef
       ELSE \* stop any existing scanner
            /\ qrScannerRef' = "null"
            /\ starts' = Put(Take(starts, "hasCamera"), "permission")
            /\ UNCHANGED cameraError
    /\ UNCHANGED <<visible, hasEstimate, stopped, seen, mounted, isScanning, decodedData, error, 
                   progress, partsCount, isMultiPart, urDecoderRef, scannedPartsRef,
                   leaked, inflight, limits, fed>>
    /\ UNCHANGED streams
    /\ UNCHANGED outside

\* the probe has a stream: setHasPermission(true), the tracks of the stream
\* are stopped, isScanning is set and the timer scheduled
ProbeGranted(stage) ==
    LET acquired == streams + 1
    IN  /\ streams' = acquired - 1
        /\ isScanning' = TRUE
        /\ starts' = Put(Take(starts, stage), "timer")
        /\ UNCHANGED cameraError

\* a probe that keeps the stream of the environment camera open
StartEnvironmentKeepsStream(granted) ==
    /\ last' = NoScan
    /\ Count(starts, "permission") > 0
    /\ IF granted
       THEN /\ streams' = streams + 1
            /\ isScanning' = TRUE
            /\ starts' = Put(Take(starts, "permission"), "timer")
            /\ UNCHANGED cameraError
       ELSE /\ starts' = Put(Take(starts, "permission"), "fallback")
            /\ UNCHANGED <<isScanning, cameraError, streams>>
    /\ UNCHANGED <<visible, hasEstimate, stopped, seen, mounted, decodedData, error, progress, partsCount,
                   isMultiPart, qrScannerRef, urDecoderRef, scannedPartsRef, leaked,
                   inflight, limits, fed>>
    /\ UNCHANGED outside

\* getUserMedia for the environment camera has answered; refused, the probe
\* goes on to ask for any camera
StartEnvironment(granted) ==
    /\ last' = NoScan
    /\ Count(starts, "permission") > 0
    /\ IF granted
       THEN ProbeGranted("permission")
       ELSE /\ starts' = Put(Take(starts, "permission"), "fallback")
            /\ UNCHANGED <<isScanning, cameraError, streams>>
    /\ UNCHANGED <<visible, hasEstimate, stopped, seen, mounted, decodedData, error, progress, partsCount,
                   isMultiPart, qrScannerRef, urDecoderRef, scannedPartsRef, leaked,
                   inflight, limits, fed>>
    /\ UNCHANGED outside

\* a probe whose refusal is reported and then ignored
StartPermissionIgnored(granted) ==
    /\ last' = NoScan
    /\ Count(starts, "fallback") > 0
    /\ IF granted
       THEN ProbeGranted("fallback")
       ELSE /\ cameraError' = PermissionDenied
            /\ starts' = Put(Take(starts, "fallback"), "timer")
            /\ isScanning' = TRUE
            /\ UNCHANGED streams
    /\ UNCHANGED <<visible, hasEstimate, stopped, seen, mounted, decodedData, error, progress, partsCount,
                   isMultiPart, qrScannerRef, urDecoderRef, scannedPartsRef, leaked,
                   inflight, limits, fed>>
    /\ UNCHANGED outside

\* getUserMedia for any camera has answered
StartPermission(granted) ==
    /\ last' = NoScan
    /\ Count(starts, "fallback") > 0
    /\ IF granted
       THEN ProbeGranted("fallback")
       ELSE /\ cameraError' = PermissionDenied
            /\ starts' = Take(starts, "fallback")
            /\ UNCHANGED <<isScanning, streams>>
    /\ UNCHANGED <<visible, hasEstimate, stopped, seen, mounted, decodedData, error, progress, partsCount,
                   isMultiPart, qrScannerRef, urDecoderRef, scannedPartsRef, leaked,
                   inflight, limits, fed>>
    /\ UNCHANGED outside

\* the 200 ms timer fires; the video element is rendered while isScanning.
\* The new scanner replaces the one qrScannerRef held, which is not destroyed.
StartTimer ==
    /\ last' = NoScan
    /\ Count(starts, "timer") > 0
    /\ IF ~isScanning \/ ~mounted
       THEN /\ cameraError' = VideoNotReady
            /\ isScanning' = FALSE
            /\ starts' = Take(starts, "timer")
            /\ UNCHANGED <<qrScannerRef, leaked>>
       ELSE /\ leaked' = IF qrScannerRef = "null" THEN leaked ELSE Put(leaked, qrScannerRef)
            /\ qrScannerRef' = "created"
            /\ starts' = Put(Take(starts, "timer"), "starting")
            /\ UNCHANGED <<cameraError, isScanning>>
    /\ UNCHANGED <<visible, hasEstimate, stopped, seen, mounted, decodedData, error, progress,
                   partsCount, isMultiPart, urDecoderRef, scannedPartsRef, inflight, limits, fed>>
    /\ UNCHANGED streams
    /\ UNCHANGED outside

\* The invocations awaiting start() of a scanner that was destroyed meanwhile:
\* every scanner still "created" has one invocation awaiting it.
CreatedScanners == Count(leaked, "created") + (IF qrScannerRef = "created" THEN 1 ELSE 0)
OrphanStarts == Count(starts, "starting") - CreatedScanners

\* the start() of a scanner has settled: of the one qrScannerRef holds
\* ("ref"), of an unreferenced one ("leaked"), or of a destroyed one ("gone")
StartStarted(which, started) ==
    /\ last' = NoScan
    /\ Count(starts, "starting") > 0
    /\ \/ which = "ref" /\ qrScannerRef = "created"
       \/ which = "leaked" /\ Count(leaked, "created") > 0
       \/ which = "gone" /\ OrphanStarts > 0
    /\ starts' = Take(starts, "starting")
    /\ LET after == IF started THEN "running" ELSE "failed"
       IN  /\ qrScannerRef' = IF which = "ref" THEN after ELSE qrScannerRef
           /\ leaked' = IF which = "leaked" THEN Put(Take(leaked, "created"), after)
                        ELSE leaked
    /\ IF started
       THEN UNCHANGED <<cameraError, isScanning>>
       ELSE /\ cameraError' = FailedToStart
            /\ isScanning' = FALSE
    /\ UNCHANGED <<visible, hasEstimate, stopped, seen, mounted, decodedData, error, progress,
                   partsCount, isMultiPart, urDecoderRef, scannedPartsRef, inflight, limits, fed>>
    /\ UNCHANGED streams
    /\ UNCHANGED outside

\* a running scanner reads one of the codes in view
Scan == \E qrData \in visible : HandleQRResult(qrData)
\* the receivePart a handler awaits settles
Settle ==
    \E run \in DOMAIN inflight, rejected \in BOOLEAN, answer \in EstimateAnswers(urDecoderRef) :
        ResumeHandler(run, rejected, answer[1], answer[2])

Next ==
    \/ Scan
    \/ Settle
    \/ StopScanning
    \/ ClearResults
    \/ StartScanning
    \/ \E hasCamera \in BOOLEAN : StartHasCamera(hasCamera)
    \/ \E granted \in BOOLEAN : StartEnvironment(granted)
    \/ \E granted \in BOOLEAN : StartPermission(granted)
    \/ StartTimer
    \/ \E which \in {"ref", "leaked", "gone"}, started \in BOOLEAN :
          StartStarted(which, started)

Spec == Init /\ [][Next]_vars

(***************************************************************************)
(* The ten parts of one crypto-psbt message held up to a reader whose      *)
(* camera has just started: scans in any order, any number of times each.  *)
(***************************************************************************)
InitTen ==
    /\ visible = TenParts
    /\ limits = [inflight |-> TenInflight, starts |-> 0, history |-> FALSE]
    /\ hasEstimate \in BOOLEAN
    /\ isScanning = TRUE
    /\ qrScannerRef = "running"
    /\ decodedData = NoData
    /\ error = NoError
    /\ cameraError = NoCameraError
    /\ progress = Zero
    /\ partsCount = 0
    /\ isMultiPart = FALSE
    /\ urDecoderRef = NullDecoder
    /\ scannedPartsRef = {}
    /\ leaked = EmptyBag
    /\ starts = EmptyBag
    /\ inflight = EmptyBag
    /\ fed = EmptyBag
    /\ mounted = TRUE
    /\ stopped = FALSE
    /\ seen = {}
    /\ last = NoScan
    /\ streams = 0
    /\ OutsideIdle

NextTen == Scan \/ Settle

SpecTen == InitTen /\ [][NextTen]_vars

(***************************************************************************)
(* The reader with its history kept.                                       *)
(***************************************************************************)
InitHistory ==
    InitWith(ScenarioPsbt, [inflight |-> MaxInflight, starts |-> MaxStarts, history |-> TRUE])

SpecHistory == InitHistory /\ [][Next]_vars

(***************************************************************************)
(* The reader with invocations overlapping: two handler runs, two          *)
(* startScanning invocations, and the component unmounted at any moment.   *)
(* The cleanup of the effect destroys the scanner qrScannerRef holds and   *)
(* leaves the reference as it is; what is pending goes on.                 *)
(***************************************************************************)
Unmount ==
    /\ last' = NoScan
    /\ mounted
    /\ mounted' = FALSE
    /\ qrScannerRef' = IF qrScannerRef = "null" THEN "null" ELSE "destroyed"
    /\ stopped' = TRUE
    /\ UNCHANGED <<visible, hasEstimate, seen, isScanning, decodedData, error, cameraError,
                   progress, partsCount, isMultiPart, urDecoderRef, scannedPartsRef,
                   leaked, starts, inflight, limits, fed>>
    /\ UNCHANGED streams
    /\ UNCHANGED outside

\* a damaged one-part message and a part the codec cannot read
ScenarioFailure == {Part(TypePsbt, 1, 1, <<DamagedChar>>), Unreadable}
InitOverlap ==
    \E shown \in {ScenarioPsbt, ScenarioFailure} :
        InitWith(shown,
                 [inflight |-> OverlapInflight, starts |-> OverlapStarts, history |-> TRUE])

NextOverlap == Next \/ Unmount

SpecOverlap == InitOverlap /\ [][NextOverlap]_vars

(***************************************************************************)
(* formatSighashFlag called once, for undefined or for a value up to       *)
(* MaxSighash.                                                             *)
(***************************************************************************)
InitSighash ==
    /\ ReaderInit(ScenarioPsbt, [inflight |-> 0, starts |-> 0, history |-> FALSE])
    /\ sighashType \in {Undefined} \cup {Number(n) : n \in 0..MaxSighash}
    /\ flag = NoFlag
    /\ startClicked = FALSE
    /\ AppIdle

CallFormatSighashFlag ==
    /\ flag = NoFlag
    /\ flag' = formatSighashFlag(sighashType)
    /\ UNCHANGED <<reader, sighashType, startClicked, app, encoder>>

NextSighash == CallFormatSighashFlag

SpecSighash == InitSighash /\ [][NextSighash]_vars

(***************************************************************************)
(* The page: App with its two tabs, and the PSBTEncoder component.         *)
(***************************************************************************)
\* the values of the search parameter tool
ToolReadUr == <<"r", "e", "a", "d", "-", "u", "r">>
ToolPsbtToUr == <<"p", "s", "b", "t", "-", "t", "o", "-", "u", "r">>
\* values the page does not know: another letter case, and the name of a tab
OtherTools == {<<"R", "E", "A", "D", "-", "U", "R">>, <<"p", "s", "b", "t">>}
Tools == {ToolReadUr, ToolPsbtToUr} \cup OtherTools

\* the texts typed into the encoder or carried by the search parameter psbt:
\* nothing, a blank, a text outside Base64, and two PSBTs in Base64
Blank == <<" ">>
NotBase64 == <<"c", "H", "N", "i", "!">>
PsbtOne == <<"c", "H", "N", "i", "d", "P", "8", "A">>
PsbtTwo == <<"c", "H", "N", "i", "d", "P", "8", "B">>
PsbtThree == <<"c", "H", "N", "i", "d", "P", "8", "C">>
\* the PSBTs by the number of parts they are encoded in, up to MaxSeqLen parts
MaxSeqLen == 2
PsbtBySeqLen == <<PsbtOne, PsbtTwo, PsbtThree>>
KnownPsbts == {PsbtBySeqLen[n] : n \in 1..MaxSeqLen}
\* a PSBT with a blank after it
Padded == PsbtOne \o Blank
Inputs == {<<>>, Blank, NotBase64, Padded} \cup KnownPsbts

\* the pages that can be opened
Urls == {[tool |-> t, psbt |-> p] : t \in {NoParam} \cup {Param(v) : v \in Tools},
                                    p \in {NoParam} \cup {Param(v) : v \in Inputs}}

\* the mount effects have run: the page answers the user, who reaches the
\* component of the active tab only (the other is under display: none)
Ready == effects = {}
EncoderShown == Ready /\ activeTab = "psbt"
ReaderShown == Ready /\ activeTab = "read"

\* the mount effect of App: the tab named by the search parameter tool
AppMountAnyToolReads ==
    /\ "App" \in effects
    /\ effects' = effects \ {"App"}
    /\ LET tool == url.tool
       IN  activeTab' = IF tool.present /\ tool.value # ToolPsbtToUr THEN "read"
                        ELSE IF tool.present THEN "psbt"
                        ELSE activeTab
    /\ UNCHANGED <<url, tabChanged, reader, encoder, aside>>

AppMount ==
    /\ "App" \in effects
    /\ effects' = effects \ {"App"}
    /\ LET tool == url.tool
       IN  activeTab' = IF tool.present /\ tool.value = ToolReadUr THEN "read"
                        ELSE IF tool.present /\ tool.value = ToolPsbtToUr THEN "psbt"
                        ELSE activeTab
    /\ UNCHANGED <<url, tabChanged, reader, encoder, aside>>

\* handleTabChange of the variant that renders only the active component: the
\* encoder left behind is constructed anew when its tab is shown again
HandleTabChangeConditional(tab) ==
    /\ Ready
    /\ activeTab' = tab
    /\ url' = IF tab = "read"
              THEN [tool |-> Param(ToolReadUr), psbt |-> NoParam]
              ELSE [url EXCEPT !.tool = Param(ToolPsbtToUr)]
    /\ IF tab # activeTab
       THEN /\ psbtInput' = <<>>
            /\ encodedParts' = <<>>
            /\ qrCodes' = <<>>
            /\ loading' = FALSE
            /\ encoderError' = NoEncoderError
            /\ currentQrIndex' = 0
            /\ isAnimating' = FALSE
            /\ decodedPsbt' = NoDecodedPsbt
            /\ UNCHANGED <<autoEncode, encodes>>
       ELSE UNCHANGED encoder
    /\ tabChanged' = TRUE
    /\ UNCHANGED <<effects, reader, aside>>

\* handleTabChange(tab): both components stay mounted, the hidden one under
\* display: none
HandleTabChange(tab) ==
    /\ Ready
    /\ activeTab' = tab
    /\ url' = IF tab = "read"
              THEN [tool |-> Param(ToolReadUr), psbt |-> NoParam]
              ELSE [url EXCEPT !.tool = Param(ToolPsbtToUr)]
    /\ tabChanged' = TRUE
    /\ UNCHANGED <<effects, reader, encoder, aside>>

\* String.prototype.trim, for the blanks of Inputs
RECURSIVE Trim(_)
Trim(text) ==
    IF text = <<>> THEN text
    ELSE IF Head(text) = " " THEN Trim(Tail(text))
    ELSE IF text[Len(text)] = " " THEN Trim(SubSeq(text, 1, Len(text) - 1))
    ELSE text

\* /^[A-Za-z0-9+/]*={0,2}$/ over the characters Inputs are written in
Base64Chars == {"c", "H", "N", "i", "d", "P", "8", "A", "B", "C", "+", "/"}
IsBase64(text) ==
    \E pads \in 0..2 :
        /\ pads <= Len(text)
        /\ \A i \in 1..Len(text) :
               IF i <= Len(text) - pads THEN text[i] \in Base64Chars ELSE text[i] = "="

\* encoder.fountainEncoder.seqLen() at the fragment length of the construction
SeqLen(psbtData) == CHOOSE n \in DOMAIN PsbtBySeqLen : PsbtBySeqLen[n] = psbtData
\* the parts of the loop over encoder.nextPart(), and the image of a part
UrParts(psbtData) == [i \in 1..SeqLen(psbtData) |-> [of |-> psbtData, seqNum |-> i]]
ToDataURL(part) == [image |-> part]

\* the messages of the encoder
PleaseEnter == "Please enter a PSBT Base64 string"
InvalidBase64 == "Error encoding PSBT: Invalid Base64 string - must contain only A-Z, a-z, 0-9, +, /, and = characters"

\* the mount effect of PSBTEncoder: the search parameter psbt becomes the input
\* and is encoded 100 ms later
EncoderMount ==
    /\ "PSBTEncoder" \in effects
    /\ effects' = effects \ {"PSBTEncoder"}
    /\ LET psbtFromUrl == url.psbt
       IN  IF psbtFromUrl.present /\ psbtFromUrl.value # <<>>
           THEN /\ psbtInput' = psbtFromUrl.value
                /\ autoEncode' = [pending |-> TRUE, psbtFromUrl |-> psbtFromUrl.value]
           ELSE UNCHANGED <<psbtInput, autoEncode>>
    /\ UNCHANGED <<encodedParts, qrCodes, loading, encoderError, currentQrIndex,
                   isAnimating, decodedPsbt, encodes>>
    /\ UNCHANGED <<activeTab, url, tabChanged, reader, aside>>

\* the textarea's onInput
SetPsbtInput(text) ==
    /\ EncoderShown
    /\ psbtInput' = text
    /\ UNCHANGED <<encodedParts, qrCodes, loading, encoderError, currentQrIndex,
                   isAnimating, decodedPsbt, autoEncode, encodes>>
    /\ UNCHANGED <<app, reader, aside>>

\* encodePSBT and autoEncodePSBT from setLoading(true) to the first await
BeginEncode(psbtData) ==
    /\ IF IsBase64(psbtData)
       THEN /\ loading' = TRUE
            /\ encoderError' = NoEncoderError
            /\ encodes' = Put(encodes, [psbtData |-> psbtData, await |-> "nextPart"])
       ELSE /\ loading' = FALSE
            /\ encoderError' = InvalidBase64
            /\ UNCHANGED encodes
    /\ UNCHANGED <<psbtInput, encodedParts, qrCodes, currentQrIndex, isAnimating,
                   decodedPsbt>>

\* the timer of the mount effect, due 100 ms after the effects of the first
\* render: autoEncodePSBT(psbtFromUrl)
AutoEncodePSBT ==
    /\ Ready
    /\ autoEncode.pending
    /\ autoEncode' = NoTimer
    /\ IF Trim(autoEncode.psbtFromUrl) = <<>>
       THEN UNCHANGED <<psbtInput, encodedParts, qrCodes, loading, encoderError,
                        currentQrIndex, isAnimating, decodedPsbt, encodes>>
       ELSE BeginEncode(autoEncode.psbtFromUrl)
    /\ UNCHANGED <<app, reader, aside>>

\* encodePSBT validating the trimmed input instead of the input
EncodePSBTTrimmed ==
    /\ EncoderShown
    /\ ~loading
    /\ IF Trim(psbtInput) = <<>>
       THEN /\ encoderError' = PleaseEnter
            /\ UNCHANGED <<psbtInput, encodedParts, qrCodes, loading, currentQrIndex,
                           isAnimating, decodedPsbt, encodes>>
       ELSE BeginEncode(Trim(psbtInput))
    /\ UNCHANGED <<autoEncode, app, reader, aside>>

\* the button Encode PSBT, disabled while loading
EncodePSBT ==
    /\ EncoderShown
    /\ ~loading
    /\ IF Trim(psbtInput) = <<>>
       THEN /\ encoderError' = PleaseEnter
            /\ UNCHANGED <<psbtInput, encodedParts, qrCodes, loading, currentQrIndex,
                           isAnimating, decodedPsbt, encodes>>
       ELSE BeginEncode(psbtInput)
    /\ UNCHANGED <<autoEncode, app, reader, aside>>

\* a run past the loop over nextPart: setEncodedParts(parts)
EncodeParts(run) ==
    /\ BagIn(run, encodes)
    /\ run.await = "nextPart"
    /\ encodedParts' = UrParts(run.psbtData)
    /\ encodes' = Put(Take(encodes, run), [run EXCEPT !.await = "toDataURL"])
    /\ UNCHANGED <<psbtInput, qrCodes, loading, encoderError, currentQrIndex,
                   isAnimating, decodedPsbt, autoEncode>>
    /\ UNCHANGED <<app, reader, aside>>

\* the images of the parts whose QRCode.toDataURL resolved (made), in the
\* order of the parts: a rejection is logged and its part has no image
QrDataUrls(parts, made) ==
    LET Made(i) == i \in made
        kept == SelectSeq([i \in 1..Len(parts) |-> i], Made)
    IN  [k \in 1..Len(kept) |-> ToDataURL(parts[kept[k]])]

\* a run past the loop over QRCode.toDataURL, to its end: the images, the first
\* of them shown, the URL, the decoded PSBT, and loading off
EncodeDone(run, made) ==
    /\ BagIn(run, encodes)
    /\ run.await = "toDataURL"
    /\ qrCodes' = QrDataUrls(UrParts(run.psbtData), made)
    /\ currentQrIndex' = 0
    /\ url' = [tool |-> Param(ToolPsbtToUr), psbt |-> Param(run.psbtData)]
    /\ decodedPsbt' = [decoded |-> TRUE, raw |-> run.psbtData]
    /\ loading' = FALSE
    /\ encodes' = Take(encodes, run)
    /\ UNCHANGED <<psbtInput, encodedParts, encoderError, isAnimating, autoEncode>>
    /\ UNCHANGED <<activeTab, effects, tabChanged, reader, aside>>

\* the buttons of the animation, rendered for more than one image
StartAnimation ==
    /\ EncoderShown
    /\ Len(encodedParts) > 0 /\ Len(qrCodes) > 1
    /\ ~isAnimating
    /\ isAnimating' = TRUE
    /\ UNCHANGED <<psbtInput, encodedParts, qrCodes, loading, encoderError,
                   currentQrIndex, decodedPsbt, autoEncode, encodes>>
    /\ UNCHANGED <<app, reader, aside>>

StopAnimation ==
    /\ EncoderShown
    /\ Len(encodedParts) > 0 /\ Len(qrCodes) > 1
    /\ isAnimating
    /\ isAnimating' = FALSE
    /\ UNCHANGED <<psbtInput, encodedParts, qrCodes, loading, encoderError,
                   currentQrIndex, decodedPsbt, autoEncode, encodes>>
    /\ UNCHANGED <<app, reader, aside>>

\* a tick that stays on the last image instead of returning to the first
AnimationTickStopsAtLast ==
    /\ Len(qrCodes) > 1 /\ isAnimating
    /\ currentQrIndex' = IF currentQrIndex + 1 < Len(qrCodes)
                         THEN currentQrIndex + 1
                         ELSE currentQrIndex
    /\ UNCHANGED <<psbtInput, encodedParts, qrCodes, loading, encoderError,
                   isAnimating, decodedPsbt, autoEncode, encodes>>
    /\ UNCHANGED <<app, reader, aside>>

\* a tick of the interval of the animation effect
AnimationTick ==
    /\ Len(qrCodes) > 1 /\ isAnimating
    /\ currentQrIndex' = (currentQrIndex + 1) % Len(qrCodes)
    /\ UNCHANGED <<psbtInput, encodedParts, qrCodes, loading, encoderError,
                   isAnimating, decodedPsbt, autoEncode, encodes>>
    /\ UNCHANGED <<app, reader, aside>>

\* the button Show QR of part i
ShowQr(i) ==
    /\ EncoderShown
    /\ i < Len(encodedParts)
    /\ currentQrIndex' = i
    /\ UNCHANGED <<psbtInput, encodedParts, qrCodes, loading, encoderError,
                   isAnimating, decodedPsbt, autoEncode, encodes>>
    /\ UNCHANGED <<app, reader, aside>>

\* the steps of the encoder, its user typing the given texts
Encoder(texts) ==
    \/ \E text \in texts : SetPsbtInput(text)
    \/ AutoEncodePSBT
    \/ EncodePSBT
    \/ \E run \in BagToSet(encodes) : EncodeParts(run)
    \/ \E run \in BagToSet(encodes), made \in SUBSET (1..MaxSeqLen) :
          made \subseteq 1..SeqLen(run.psbtData) /\ EncodeDone(run, made)
    \/ StartAnimation
    \/ StopAnimation
    \/ AnimationTick
    \/ \E i \in 0..(Len(encodedParts) - 1) : ShowQr(i)

(***************************************************************************)
(* The page opened with any value of tool and with or without a PSBT in    *)
(* the URL; the user types that PSBT, switches tabs and works the camera   *)
(* of the reader, which is shown one single-part code and is given         *)
(* TabStarts invocations of startScanning at a time.                       *)
(***************************************************************************)
TabStarts == 1
TabInputs == {PsbtTwo}

InitApp ==
    /\ ReaderInit({SinglePart}, [inflight |-> 0, starts |-> TabStarts, history |-> FALSE])
    /\ sighashType = Undefined
    /\ flag = NoFlag
    /\ startClicked = FALSE
    /\ activeTab = "psbt"
    /\ url \in {u \in Urls : u.psbt \in {NoParam} \cup {Param(v) : v \in TabInputs}}
    /\ effects = {"App", "PSBTEncoder"}
    /\ tabChanged = FALSE
    /\ EncoderConstructed

NextApp ==
    \/ AppMount
    \/ EncoderMount
    \/ \E tab \in {"psbt", "read"} : HandleTabChange(tab)
    \/ Encoder(TabInputs)
    \/ Scan
    \/ ReaderShown /\ StopScanning
    \/ ReaderShown /\ ClearResults
    \/ ReaderShown /\ StartScanning
    \/ \E hasCamera \in BOOLEAN : StartHasCamera(hasCamera)
    \/ \E granted \in BOOLEAN : StartEnvironment(granted)
    \/ \E granted \in BOOLEAN : StartPermission(granted)
    \/ StartTimer
    \/ \E which \in {"ref", "leaked", "gone"}, started \in BOOLEAN :
          StartStarted(which, started)

SpecApp == InitApp /\ [][NextApp]_vars

(***************************************************************************)
(* The page with the reader of src/components/URReader.tsx, the file App   *)
(* imports.  Its video element is rendered while isScanning only, and its  *)
(* startScanning begins by returning when there is no video element.  Its  *)
(* Stop Camera is disabled unless isScanning and its Clear Results unless  *)
(* there is a payload or an error, which no state of this reader has.      *)
(***************************************************************************)
\* videoRef.current is the element: {isScanning && (... <video ref={videoRef} ...)}
VideoRendered == isScanning

\* startScanning, Start Camera being disabled while isScanning; past the first
\* line, a camera present and permission granted: the scanner is created and
\* setIsScanning(true) called, start() being left to the timer
StartScanningTsx ==
    /\ ReaderShown
    /\ ~isScanning
    /\ startClicked' = TRUE
    /\ IF ~VideoRendered
       THEN UNCHANGED reader
       ELSE /\ error' = NoError
            /\ cameraError' = NoCameraError
            /\ decodedData' = NoData
            /\ qrScannerRef' = "created"
            /\ isScanning' = TRUE
            /\ UNCHANGED <<visible, hasEstimate, progress, partsCount, isMultiPart,
                           urDecoderRef, scannedPartsRef, leaked, starts, inflight,
                           limits, mounted, fed, stopped, seen, last, streams>>
    /\ UNCHANGED <<sighashType, flag, app, encoder>>

InitTsx ==
    /\ ReaderInit({SinglePart}, [inflight |-> 0, starts |-> 0, history |-> FALSE])
    /\ sighashType = Undefined
    /\ flag = NoFlag
    /\ startClicked = FALSE
    /\ activeTab = "psbt"
    /\ url \in {u \in Urls : u.psbt \in {NoParam} \cup {Param(v) : v \in TabInputs}}
    /\ effects = {"App", "PSBTEncoder"}
    /\ tabChanged = FALSE
    /\ EncoderConstructed

NextTsx ==
    \/ AppMount
    \/ EncoderMount
    \/ \E tab \in {"psbt", "read"} : HandleTabChange(tab)
    \/ Encoder(TabInputs)
    \/ StartScanningTsx

\* effects, timers and promise continuations run once they are due; the user is
\* free to act or not
FairTsx ==
    /\ WF_vars(AppMount)
    /\ WF_vars(EncoderMount)
    /\ WF_vars(AutoEncodePSBT)
    /\ WF_vars(\E run \in BagToSet(encodes) : EncodeParts(run))
    /\ WF_vars(\E run \in BagToSet(encodes), made \in SUBSET (1..MaxSeqLen) :
                   made \subseteq 1..SeqLen(run.psbtData) /\ EncodeDone(run, made))
    /\ WF_vars(AnimationTick)

SpecTsx == InitTsx /\ [][NextTsx]_vars /\ FairTsx

(***************************************************************************)
(* The encoder at work: the page opened with any of Inputs in the URL, or  *)
(* with none; the user types any of Inputs, encodes, animates, picks       *)
(* images and switches tabs; the reader is left idle.                      *)
(***************************************************************************)
InitEncoder ==
    /\ ReaderInit({SinglePart}, [inflight |-> 0, starts |-> 0, history |-> FALSE])
    /\ hasEstimate
    /\ sighashType = Undefined
    /\ flag = NoFlag
    /\ startClicked = FALSE
    /\ activeTab = "psbt"
    /\ url \in {u \in Urls : u.tool \in {NoParam, Param(ToolReadUr)}}
    /\ effects = {"App", "PSBTEncoder"}
    /\ tabChanged = FALSE
    /\ EncoderConstructed

NextEncoder ==
    \/ AppMount
    \/ EncoderMount
    \/ \E tab \in {"psbt", "read"} : HandleTabChange(tab)
    \/ Encoder(Inputs)

SpecEncoder == InitEncoder /\ [][NextEncoder]_vars

\* the encoder with the interval of the animation effect firing as long as it
\* is set
SpecAnimation == InitEncoder /\ [][NextEncoder]_vars /\ WF_vars(AnimationTick)

(***************************************************************************)
(* Properties of the reader.                                               *)
(***************************************************************************)
\* the text does not begin with the scheme prefix in either letter case
LacksScheme(t) ==
    \/ Len(t) < 3
    \/ t[1] \notin {"u", "U"}
    \/ t[2] \notin {"r", "R"}
    \/ t[3] # ":"
\* the text carries a sequence marker: "/", digits, "-", digits, "/"
CarriesMarker(t) ==
    \E i \in 1..Len(t), k \in 1..Len(t) :
        /\ i < k /\ t[i] = "/" /\ t[k] = "/"
        /\ \E j \in (i + 2)..(k - 2) :
              /\ t[j] = "-"
              /\ \A m \in ((i + 1)..(k - 1)) \ {j} : t[m] \in {DigitChars[x] : x \in 1..10}
\* the reader's session state, as far as a scan can touch it
session == <<scannedPartsRef, urDecoderRef, progress, partsCount, isMultiPart, decodedData,
             isScanning, qrScannerRef, inflight, fed>>

\* C1: within one session no text is passed to receivePart twice, and a scan
\* of a text already in the set of scanned parts leaves the size of the set
\* as it was.
C1_NoPartFedTwice ==
    [][ /\ \A t \in DOMAIN fed' : fed'[t] <= 1
        /\ \A t \in scannedPartsRef :
              HandleQRResult(t) => Cardinality(scannedPartsRef') = Cardinality(scannedPartsRef)
      ]_vars
\* a text in the set, already passed to the decoder once, was scanned again
C1_Witness ==
    /\ last = Skipped
    /\ scannedPartsRef # {}
    /\ \A t \in scannedPartsRef : Count(fed, t) = 1

\* C2: a scan of a text that does not begin with "ur:" in either letter case
\* shows the format error, leaves the scanned parts, the decoder and the
\* progress as they were, and passes nothing to the decoder.
C2_NonUrRejected ==
    [][ \A t \in visible :
          (HandleQRResult(t) /\ LacksScheme(t)) =>
             /\ error' = FormatError
             /\ UNCHANGED <<scannedPartsRef, urDecoderRef, progress, fed, inflight>>
      ]_vars
\* "not-a-ur-code" was shown to a fresh session: the error is up, progress is 0
C2_Witness ==
    /\ NotAUrCode \in visible
    /\ error = FormatError
    /\ progress = Zero
    /\ scannedPartsRef = {}
    /\ ~urDecoderRef.exists

C4_DuplicateChangesNothing ==
    [][ \A t \in scannedPartsRef : HandleQRResult(t) => UNCHANGED <<session, error>> ]_vars
\* C4: a scan of a text already in the set leaves the session as it was and
\* calls no decoder, but the error shown is cleared.
C4_DuplicateClearsError ==
    [][ \A t \in scannedPartsRef :
          HandleQRResult(t) => (UNCHANGED session /\ error' = NoError) ]_vars
\* a scanned text was scanned again while its part was in the decoder
C4_Witness ==
    /\ last = Skipped
    /\ scannedPartsRef # {}
    /\ error = NoError
    /\ urDecoderRef.exists

\* C5: a scan of a text not yet scanned that has the prefix and no sequence
\* marker ends the session with the text itself as the payload, progress 100
\* and the scanner stopped; the decoder, whether one exists or not, is
\* neither called nor changed.
C5_SinglePartCompletes ==
    [][ \A t \in visible \ scannedPartsRef :
          (HandleQRResult(t) /\ ~LacksScheme(t) /\ ~CarriesMarker(t)) =>
             /\ decodedData' = RawData(t)
             /\ progress' = Hundred
             /\ ~isScanning' /\ qrScannerRef' = "null"
             /\ UNCHANGED <<urDecoderRef, fed, inflight>>
      ]_vars
\* a single-part text ended a session that already had a decoder
C5_Witness ==
    /\ decodedData.kind = "raw"
    /\ decodedData.data \in scannedPartsRef
    /\ progress = Hundred
    /\ ~isScanning
    /\ urDecoderRef.exists

\* the run settles without a rejection
Resolves(run) ==
    \E answer \in EstimateAnswers(urDecoderRef) : ResumeHandler(run, FALSE, answer[1], answer[2])
\* what the decoder holds when it has succeeded
Decoded == ResultMessage(urDecoderRef)

\* C6 as first stated: when a run finds the decoder complete the scanner is
\* stopped and isScanning is false; on success the payload shown carries the
\* decoded type and bytes, otherwise the error carries the decoder's reason.
C6_CompleteShowsBytes ==
    [][ \A run \in DOMAIN inflight :
          (Resolves(run) /\ urDecoderRef.exists /\ urDecoderRef.done # "no") =>
             /\ ~isScanning' /\ qrScannerRef' = "null"
             /\ IF urDecoderRef.done = "success"
                THEN /\ decodedData'.type = Decoded.type
                     /\ decodedData'.data = HexJoin(Decoded.cbor)
                ELSE error' = DecodeFailed(ResultError(urDecoderRef))
      ]_vars
\* C6: when a run finds the decoder complete the scanner is stopped and
\* isScanning is false; on success the payload shown carries the decoded type
\* and, for crypto-psbt, the bytes in hex, for any other type the number of
\* bytes only; otherwise the error carries the decoder's reason.
C6_CompleteIsTerminal ==
    [][ \A run \in DOMAIN inflight :
          (Resolves(run) /\ urDecoderRef.exists /\ urDecoderRef.done # "no") =>
             /\ ~isScanning' /\ qrScannerRef' = "null"
             /\ IF urDecoderRef.done = "success"
                THEN /\ decodedData'.type = Decoded.type
                     /\ decodedData'.len = Len(Decoded.cbor)
                     /\ decodedData'.data =
                           IF Decoded.type = TypePsbt THEN HexJoin(Decoded.cbor) ELSE <<>>
                ELSE error' = DecodeFailed(ResultError(urDecoderRef))
      ]_vars
\* a message of another type was decoded: its length is shown, scanning is over
C6_Witness ==
    /\ urDecoderRef.done = "success"
    /\ decodedData.kind = "length"
    /\ decodedData.type = TypeBytes
    /\ ~isScanning

\* C7: a decoded payload is shown only while the decoder is complete and
\* successful, a text with a sequence marker is never shown as a payload, and
\* a run that finds the decoder not complete neither sets a payload nor stops
\* the scanner, whatever progress it sets.
C7_SuccessNeedsDecoder ==
    [][ /\ decodedData'.kind \in {"hex", "length"} => urDecoderRef'.done = "success"
        /\ decodedData'.kind = "raw" => ~CarriesMarker(decodedData'.data)
        /\ \A run \in DOMAIN inflight :
              (Resolves(run) /\ urDecoderRef.exists /\ urDecoderRef.done = "no") =>
                 UNCHANGED <<decodedData, isScanning, qrScannerRef>>
      ]_vars
\* progress stands at 100 with the decoder not complete: nothing shown, still scanning
C7_Witness ==
    /\ progress = Hundred
    /\ urDecoderRef.exists /\ urDecoderRef.done = "no"
    /\ inflight = EmptyBag
    /\ decodedData = NoData
    /\ isScanning /\ qrScannerRef = "running"

\* the bytes of the message the ten parts carry: 37, 74, 111, 148, 185, 222,
\* 3, 40, 77 and 114, written in hex
TenHex == <<"2","5", "4","a", "6","f", "9","4", "b","9", "d","e", "0","3", "2","8",
            "4","d", "7","2">>
\* C8: once all ten parts have been scanned and every run has settled, the
\* bytes of the message are shown in hex, progress is 100 and the scanner is
\* stopped.
C8_TenPartsDecode ==
    (visible = TenParts /\ TenParts \subseteq scannedPartsRef /\ inflight = EmptyBag) =>
        /\ decodedData.kind = "hex"
        /\ decodedData.type = TypePsbt
        /\ decodedData.data = TenHex
        /\ progress = Hundred
        /\ ~isScanning /\ qrScannerRef = "null"
\* all ten were scanned and passed to the decoder, every run has settled
C8_Witness ==
    /\ visible = TenParts
    /\ scannedPartsRef = TenParts
    /\ \A t \in TenParts : Count(fed, t) = 1
    /\ inflight = EmptyBag
    /\ decodedData.kind = "hex"

\* C9: with three of the ten parts in view no payload is ever shown and
\* progress never exceeds 30.
C9_ThreeOfTen ==
    visible = ScenarioThree =>
        /\ decodedData = NoData
        /\ urDecoderRef.done = "no"
        /\ RLeq(progress, <<30, 1>>)
\* the three parts were scanned and progress stands at 30
C9_Witness ==
    /\ visible = ScenarioThree
    /\ scannedPartsRef = ScenarioThree
    /\ inflight = EmptyBag
    /\ progress = <<30, 1>>
    /\ isScanning

\* min(100, 100 * count / n)
ShareOfTotal(count, n) ==
    IF n = 0 \/ count >= n THEN Hundred ELSE Rat(100 * count, n)
\* C10 as first stated: every run that settles sets progress to the
\* decoder's estimate as a percentage when the decoder gives one, and to
\* min(100, 100 * scanned texts / n) otherwise.
C10_ProgressIsEstimate ==
    [][ \A run \in DOMAIN inflight, rejected \in BOOLEAN,
           answer \in EstimateAnswers(urDecoderRef) :
          ResumeHandler(run, rejected, answer[1], answer[2]) =>
             progress' = IF hasEstimate /\ ~answer[1] THEN TimesHundred(answer[2])
                         ELSE ShareOfTotal(Cardinality(scannedPartsRef), run.match[1])
      ]_vars
\* C10: a run whose receivePart rejects, or that finds no decoder, leaves
\* progress as it was; a run that finds the decoder complete sets it to 100;
\* any other run sets it to the decoder's estimate as a percentage when the
\* decoder gives one, and to min(100, 100 * scanned texts / n) otherwise.
C10_ProgressAfterPart ==
    [][ \A run \in DOMAIN inflight, rejected \in BOOLEAN,
           answer \in EstimateAnswers(urDecoderRef) :
          ResumeHandler(run, rejected, answer[1], answer[2]) =>
             progress' = IF rejected \/ ~urDecoderRef.exists THEN progress
                         ELSE IF urDecoderRef.done # "no" THEN Hundred
                         ELSE IF hasEstimate /\ ~answer[1] THEN TimesHundred(answer[2])
                         ELSE ShareOfTotal(Cardinality(scannedPartsRef), run.match[1])
      ]_vars
\* the decoder's estimate, half of the share of the scanned parts, is shown
C10_Witness ==
    /\ hasEstimate
    /\ urDecoderRef.exists /\ urDecoderRef.done = "no"
    /\ partsCount = 1
    /\ inflight = EmptyBag
    /\ progress = <<25, 1>>

\* the parts in view all declare the same total
FixedTotal ==
    \A t \in visible, u \in visible :
        (CarriesMarker(t) /\ CarriesMarker(u)) => TotalParts(t) = TotalParts(u)
\* C11: progress lies within 0..100 in every state, and with the parts in
\* view declaring one total and a decoder that exposes no estimate no step
\* within a session lowers it.
C11_ProgressMonotone ==
    [][ /\ RLeq(Zero, progress') /\ RLeq(progress', Hundred)
        /\ \/ RLeq(progress, progress')
           \/ hasEstimate
           \/ ClearResults \/ StartScanning
           \/ ~FixedTotal
      ]_vars
\* two of ten parts were scanned: progress has risen to 20
C11_Witness ==
    /\ ~hasEstimate
    /\ visible = ScenarioThree
    /\ Cardinality(scannedPartsRef) = 2
    /\ inflight = EmptyBag
    /\ progress = <<20, 1>>

\* C12: clearResults leaves progress 0, no scanned parts, no decoder, a
\* parts count of 0, no payload and no error; a text scanned before it is
\* then taken up as new: added to the set and, when it carries a marker,
\* passed to the decoder, which is a new one when the set was empty.
C12_ClearResets ==
    [][ /\ ClearResults =>
              /\ progress' = Zero /\ partsCount' = 0
              /\ scannedPartsRef' = {} /\ ~urDecoderRef'.exists
              /\ decodedData' = NoData /\ error' = NoError
        /\ \A t \in (seen \cap visible) \ scannedPartsRef :
              HandleQRResult(t) =>
                 /\ scannedPartsRef' = scannedPartsRef \cup {t}
                 /\ CarriesMarker(t) =>
                       /\ fed' = Put(fed, t)
                       /\ scannedPartsRef = {} => urDecoderRef' = DecoderReceive(NewDecoder, t)
      ]_vars
\* a text scanned before a clearResults is in the set again and went to a decoder
C12_Witness ==
    \E t \in seen \cap scannedPartsRef :
        /\ Count(fed, t) = 1
        /\ urDecoderRef.exists /\ urDecoderRef.parts # {}
        /\ isScanning

\* C13: stopScanning leaves the scanned parts, the decoder, progress, the
\* parts count, the payload and the error as they were; it releases the
\* scanner and sets isScanning to false.
C13_StopKeepsSession ==
    [][ StopScanning =>
          /\ UNCHANGED <<scannedPartsRef, urDecoderRef, progress, partsCount,
                         decodedData, error>>
          /\ ~isScanning' /\ qrScannerRef' = "null"
      ]_vars
\* stopped by the button in the middle of a message: parts, decoder and
\* progress are still there
C13_Witness ==
    /\ ~isScanning /\ qrScannerRef = "null" /\ starts = EmptyBag
    /\ scannedPartsRef # {} /\ urDecoderRef.exists /\ urDecoderRef.parts # {}
    /\ progress # Zero /\ partsCount > 0
    /\ decodedData = NoData /\ error = NoError /\ cameraError = NoCameraError

\* C14 as first stated: the run that finds the decoder complete and
\* successful leaves no scanned parts and no decoder, as clearResults does.
C14_SuccessResets ==
    [][ \A run \in DOMAIN inflight :
          (Resolves(run) /\ urDecoderRef.exists /\ urDecoderRef.done = "success") =>
             (scannedPartsRef' = {} /\ ~urDecoderRef'.exists)
      ]_vars
\* C14: startScanning and clearResults leave no scanned parts and no decoder,
\* and nothing else empties the set or drops the decoder; the run that finds
\* the decoder complete and successful stops the scanner and keeps both.
C14_ResetOnStartOrClear ==
    [][ /\ (StartScanning \/ ClearResults) =>
              (scannedPartsRef' = {} /\ ~urDecoderRef'.exists /\ partsCount' = 0)
        /\ ((scannedPartsRef # {} /\ scannedPartsRef' = {})
              \/ (urDecoderRef.exists /\ ~urDecoderRef'.exists)) =>
              (StartScanning \/ ClearResults)
        /\ \A run \in DOMAIN inflight :
              (Resolves(run) /\ urDecoderRef.exists /\ urDecoderRef.done = "success") =>
                 /\ UNCHANGED <<scannedPartsRef, urDecoderRef>>
                 /\ ~isScanning' /\ qrScannerRef' = "null"
      ]_vars
\* a message is decoded and shown; its parts and its decoder are still held
C14_Witness ==
    /\ decodedData.kind \in {"hex", "length"}
    /\ scannedPartsRef # {}
    /\ urDecoderRef.exists /\ urDecoderRef.done = "success"
    /\ ~isScanning /\ inflight = EmptyBag

\* C15: at no time are two invocations of handleQRResult in progress.
C15_OneHandlerAtATime == BagCardinality(inflight) <= 1

\* C16: a run of handleQRResult begun before a reset never reads the decoder
\* constructed after it.
C16_DecoderOfOwnSession ==
    [][ \A run \in DOMAIN inflight :
          (run.stale /\ Resolves(run)) => ~urDecoderRef.exists
      ]_vars

\* C17: when stopScanning or the cleanup on unmount runs with no
\* startScanning pending, no scanner that was created is left undestroyed.
C17_NoScannerLeft ==
    [][ ((StopScanning \/ Unmount) /\ starts = EmptyBag) =>
            (leaked' = EmptyBag /\ qrScannerRef' \in {"null", "destroyed"})
      ]_vars

\* C18: after stopScanning has run, no handleQRResult is started before
\* startScanning is called again.
C18_NoScanAfterStop ==
    [][ (stopped /\ mounted) => ~Scan ]_vars

\* C19 as first stated, a camera error being any message startScanning puts
\* in cameraError: whenever one is set isScanning has not become true and no
\* QrScanner has been created.
C19_CameraErrorNeverStarts ==
    [][ (cameraError' # cameraError /\ cameraError' # NoCameraError) =>
            (~isScanning /\ UNCHANGED <<isScanning, qrScannerRef>>
               /\ qrScannerRef \notin {"created", "failed"})
      ]_vars
\* C19: when hasCamera() answers false or the permission probe is refused,
\* the invocation ends there: it sets its message in cameraError, a text that
\* is neither the format error nor a decoder error, and leaves error,
\* isScanning and the scanners as they are: it does not set isScanning and
\* creates no scanner.
C19_NoCameraNoScanning ==
    [][ (StartHasCamera(FALSE) \/ StartPermission(FALSE)) =>
          /\ cameraError' \in {NoCameraFound, PermissionDenied}
          /\ cameraError' # FormatErrorText
          /\ cameraError' # DecodingFailedPrefix \o ResultError(urDecoderRef)
          /\ UNCHANGED <<isScanning, qrScannerRef, leaked, error>>
          /\ BagCardinality(starts') = BagCardinality(starts) - 1
          /\ Count(starts', "timer") = Count(starts, "timer")
          /\ Count(starts', "starting") = Count(starts, "starting")
      ]_vars
\* the permission probe was refused: the message is shown, nothing scans
C19_Witness ==
    /\ cameraError = PermissionDenied
    /\ starts = EmptyBag
    /\ ~isScanning /\ qrScannerRef = "null" /\ leaked = EmptyBag
    /\ error = NoError

\* C20 as first stated: a run that finds the decoder complete without success
\* stops the scanner and shows the codec's reason as it is.
C20_ReasonVerbatim ==
    [][ \A run \in DOMAIN inflight :
          (Resolves(run) /\ urDecoderRef.exists /\ urDecoderRef.done \notin {"no", "success"}) =>
             /\ ~isScanning' /\ qrScannerRef' = "null"
             /\ error'.detail = ResultError(urDecoderRef)
             /\ error'.detail # FormatErrorText
      ]_vars
\* C20: a run that finds the decoder complete without success stops the
\* scanner, sets no payload and shows "Decoding failed: " followed by the
\* codec's reason, a text other than the format error.
C20_ReasonAfterPrefix ==
    [][ \A run \in DOMAIN inflight :
          (Resolves(run) /\ urDecoderRef.exists /\ urDecoderRef.done \notin {"no", "success"}) =>
             /\ ~isScanning' /\ qrScannerRef' = "null"
             /\ UNCHANGED decodedData
             /\ error'.detail = DecodingFailedPrefix \o ResultError(urDecoderRef)
             /\ error'.detail # ResultError(urDecoderRef)
             /\ error'.detail # FormatErrorText
      ]_vars
\* a damaged message was completed: the failure is shown, scanning is over
C20_Witness ==
    /\ urDecoderRef.exists /\ urDecoderRef.done \notin {"no", "success"}
    /\ error.detail = DecodingFailedPrefix \o ResultError(urDecoderRef)
    /\ decodedData = NoData
    /\ ~isScanning /\ qrScannerRef = "null"

C22_FailurePersists ==
    [][ (error.kind = "decodeFailed" /\ ~ClearResults /\ ~StartScanning) =>
            (error' = error /\ fed' = fed)
      ]_vars

\* C23: once a payload is shown, nothing but clearResults and startScanning
\* changes the payload or the progress.
C23_PayloadReadOnly ==
    [][ (decodedData # NoData /\ ~ClearResults /\ ~StartScanning) =>
            UNCHANGED <<decodedData, progress>>
      ]_vars

\* C27: there is no decoder until a text is passed to receivePart in the
\* session; a decoder is constructed only by a scan of a text that has the
\* prefix, is not in the set and carries a marker, and only while the session
\* has passed nothing to a decoder, so at most once in a session; every
\* later part goes to that same decoder.
C27_DecoderLazy ==
    [][ /\ ~urDecoderRef.exists => fed = EmptyBag
        /\ (~urDecoderRef.exists /\ urDecoderRef'.exists) =>
              /\ fed = EmptyBag /\ fed' # EmptyBag
              /\ \E t \in visible \ scannedPartsRef :
                    HandleQRResult(t) /\ ~LacksScheme(t) /\ CarriesMarker(t)
        /\ \A t \in visible :
              HandleQRResult(t) =>
                 IF ~LacksScheme(t) /\ t \notin scannedPartsRef /\ CarriesMarker(t)
                 THEN urDecoderRef' =
                         DecoderReceive(IF urDecoderRef.exists THEN urDecoderRef
                                        ELSE NewDecoder, t)
                 ELSE UNCHANGED urDecoderRef
      ]_vars
\* two parts of a message went to the one decoder of the session
C27_Witness ==
    /\ urDecoderRef.exists /\ Cardinality(urDecoderRef.parts) = 2
    /\ BagCardinality(fed) = 2
    /\ inflight = EmptyBag

\* C28: no step but clearResults and startScanning removes a text from the
\* set of scanned parts, and those two empty it.
C28_SetGrows ==
    [][ /\ (ClearResults \/ StartScanning) => scannedPartsRef' = {}
        /\ \/ scannedPartsRef \subseteq scannedPartsRef'
           \/ ClearResults \/ StartScanning
        /\ StopScanning => UNCHANGED scannedPartsRef
      ]_vars
\* the set of a stopped session still holds its parts
C28_Witness ==
    /\ Cardinality(scannedPartsRef) >= 2
    /\ ~isScanning /\ qrScannerRef = "null"
    /\ decodedData = NoData

\* C25: a permission probe that gets a stream, from the environment camera
\* or from any camera, leaves no stream with a track running, and no scanner
\* is created while a probe stream is open.
C25_ProbeStreamReleased ==
    [][ /\ (StartEnvironment(TRUE) \/ StartPermission(TRUE)) =>
              (streams' = 0 /\ isScanning' /\ UNCHANGED <<qrScannerRef, leaked>>)
        /\ CreatedScanners' > CreatedScanners => (streams = 0 /\ streams' = 0)
        /\ streams' = 0
      ]_vars
\* the probe was granted and the scanner has been created since
C25_Witness ==
    /\ qrScannerRef = "created" /\ isScanning
    /\ Count(starts, "starting") = 1
    /\ streams = 0

\* the hex digits of a value below 4096, by division
HexDigitsOf(v) ==
    LET d(k) == HexChars[k + 1]
    IN  IF v < 16 THEN <<d(v)>>
        ELSE IF v < 256 THEN <<d(v \div 16), d(v % 16)>>
        ELSE <<d(v \div 256), d((v \div 16) % 16), d(v % 16)>>
\* C26: formatSighashFlag gives "-" for undefined; for a value it gives the
\* name its low five bits select (1 SIGHASH_ALL, 2 SIGHASH_NONE, 3
\* SIGHASH_SINGLE, else "0x" and the hex of the whole value), followed by
\* "|ANYONECANPAY" exactly when bit 0x80 is set; 0x83 gives
\* SIGHASH_SINGLE|ANYONECANPAY.
C26_SighashFlag ==
    flag # NoFlag =>
        IF ~sighashType.defined THEN flag = <<"-">>
        ELSE LET v == sighashType.value
                 low == v % 32
                 name == CASE low = 1 -> SighashAllText
                           [] low = 2 -> SighashNoneText
                           [] low = 3 -> SighashSingleText
                           [] OTHER -> <<"0", "x">> \o HexDigitsOf(v)
                 suffix == IF (v \div 128) % 2 = 1 THEN AnyoneCanPayText ELSE <<>>
             IN  /\ flag = name \o suffix
                 /\ v = 131 => flag =
                         <<"S", "I", "G", "H", "A", "S", "H", "_", "S",
                           "I", "N", "G", "L", "E", "|", "A", "N", "Y",
                           "O", "N", "E", "C", "A", "N", "P", "A", "Y">>
                 /\ v = 33 => flag = SighashAllText
                 /\ v = 0 => flag = <<"0", "x", "0">>
\* 0x83 was formatted
C26_Witness ==
    /\ sighashType = Number(131)
    /\ flag = SighashSingleText \o AnyoneCanPayText


(***************************************************************************)
(* Properties of the page.                                                 *)
(***************************************************************************)
\* C30: the mount effect of App selects 'read' for tool=read-ur and 'psbt' for
\* tool=psbt-to-ur, leaves the default 'psbt' when tool is absent or has any
\* other value, and does not modify the URL.
C30_TabFromUrl ==
    [][ AppMount =>
          /\ url.tool = Param(ToolReadUr) => activeTab' = "read"
          /\ url.tool = Param(ToolPsbtToUr) => activeTab' = "psbt"
          /\ url.tool \notin {Param(ToolReadUr), Param(ToolPsbtToUr)} => activeTab' = "psbt"
          /\ url' = url ]_vars

\* the page opened with tool=read-ur, the mount effect of App alone has run
C30_Witness ==
    /\ effects = {"PSBTEncoder"}
    /\ url.tool = Param(ToolReadUr)
    /\ activeTab = "read"

\* C29: a step that switches the active tab, and any handleTabChange, leaves the
\* state of the encoder and the state of the reader as they are: a running
\* scanner keeps running under the hidden tab.
C29_TabChangeKeepsComponents ==
    [][ (activeTab' # activeTab \/ \E tab \in {"psbt", "read"} : HandleTabChange(tab))
          => UNCHANGED <<reader, encoder>> ]_vars

\* the encoder is shown, animating its two images, while the scanner started
\* under the other tab is running
C29_Witness ==
    /\ activeTab = "psbt"
    /\ isScanning
    /\ qrScannerRef = "running"
    /\ isAnimating
    /\ Len(encodedParts) = 2
    /\ Len(qrCodes) = 2


\* C24: once Start Camera has been clicked in the idle state, isScanning becomes
\* true and a scanner is started.
C24_StartBegins == startClicked ~> (isScanning /\ qrScannerRef = "running")


(***************************************************************************)
(* Properties of the reader: a start that fails, a part the decoder        *)
(* rejects, and a handler resumed after clearResults.                      *)
(***************************************************************************)
\* the session holds nothing: no scanned text, no decoder, no progress, no
\* parts counted, no payload
SessionEmpty ==
    /\ scannedPartsRef = {}
    /\ ~urDecoderRef.exists
    /\ progress = Zero
    /\ partsCount = 0
    /\ decodedData = NoData

\* C32: startScanning empties the session in the step that begins it, before
\* hasCamera and getUserMedia are asked; the answer that there is no camera
\* and the refusal of permission report the camera error and leave the
\* session as it is: nothing of the session before the start comes back.
C32_StartDiscardsFirst ==
    [][ /\ StartScanning => SessionEmpty'
        /\ (StartHasCamera(FALSE) \/ StartPermission(FALSE)) =>
              /\ cameraError' \in {NoCameraFound, PermissionDenied}
              /\ UNCHANGED <<scannedPartsRef, urDecoderRef, progress, partsCount, decodedData>> ]_vars

\* a start has failed for want of a camera while a handler of the session
\* before it is still suspended: the session is empty
C32_Witness ==
    /\ cameraError = NoCameraFound
    /\ starts = EmptyBag
    /\ \E run \in DOMAIN inflight : run.stale
    /\ SessionEmpty


\* C33: when receivePart rejects the part, the handler shows the error of the
\* part and leaves the scanner, isScanning, the payload, the progress, the
\* decoder and the scanned texts as they are; and a scan of a text that is in
\* the scanned set passes nothing to the decoder.
C33_RejectedPartStays ==
    [][ /\ (\E run \in DOMAIN inflight : ResumeHandler(run, TRUE, FALSE, Zero)) =>
              /\ error' = PartError(RejectedMessage)
              /\ UNCHANGED <<isScanning, qrScannerRef, leaked, decodedData, progress,
                             urDecoderRef, scannedPartsRef, fed>>
        /\ \A qrData \in scannedPartsRef : HandleQRResult(qrData) => fed' = fed ]_vars

\* the part the decoder cannot read was rejected: its error is shown, its text
\* is in the scanned set, it was passed to the decoder once, and the scanner
\* is running
C33_Witness ==
    /\ error = PartError(RejectedMessage)
    /\ Unreadable \in scannedPartsRef
    /\ Count(fed, Unreadable) = 1
    /\ isScanning
    /\ qrScannerRef = "running"
    /\ decodedData = NoData


\* the session as clearResults leaves it, nothing scanned since
Cleared ==
    /\ error = NoError
    /\ decodedData = NoData
    /\ progress = Zero
    /\ partsCount = 0
    /\ scannedPartsRef = {}

\* C34: after a clearResults of this camera session, and until a code is
\* scanned, the session stays pending: error null, payload null, progress 0,
\* parts count 0, also while a handler suspended before the clearResults
\* resumes.
C34_ClearedStaysPending ==
    [][ (seen # {} /\ Cleared /\ ~Scan /\ ~StartScanning) =>
          (error' = NoError /\ decodedData' = NoData /\ progress' = Zero /\ partsCount' = 0) ]_vars


\* C31: once handleTabChange has been called, the search parameter tool names
\* the active tab (read-ur for 'read', psbt-to-ur for 'psbt') and there is no
\* search parameter psbt while the active tab is 'read'.
C31_UrlFollowsTab ==
    tabChanged =>
        /\ url.tool = Param(ToolReadUr) <=> activeTab = "read"
        /\ url.tool = Param(ToolPsbtToUr) <=> activeTab = "psbt"
        /\ activeTab = "read" => url.psbt = NoParam


(***************************************************************************)
(* Properties of the encoder.                                              *)
(***************************************************************************)
\* C35: loading is true exactly while a run of encodePSBT or autoEncodePSBT is
\* in progress.
C35_LoadingWhileEncoding == loading <=> encodes # EmptyBag


\* C36: whenever there are QR images, currentQrIndex is an index of one of
\* them.
C36_IndexInRange == Len(qrCodes) > 0 => currentQrIndex < Len(qrCodes)


\* the input that the validation of encodePSBT rejects: blank, or not Base64
Rejected == Trim(psbtInput) = <<>> \/ ~IsBase64(psbtInput)

\* C38: an encodePSBT that its validation rejects sets the error message of
\* the failed check and ends with loading false, and leaves the parts, the
\* images, the index, the decoded PSBT and the URL as they were.
C38_RejectedKeepsResults ==
    [][ (EncodePSBT /\ Rejected) =>
          /\ encoderError' = IF Trim(psbtInput) = <<>> THEN PleaseEnter ELSE InvalidBase64
          /\ ~loading'
          /\ UNCHANGED <<encodedParts, qrCodes, currentQrIndex, decodedPsbt, url>> ]_vars
C38_Witness ==
    /\ psbtInput = Blank /\ encoderError = PleaseEnter
    /\ Len(qrCodes) > 1 /\ currentQrIndex = 1 /\ decodedPsbt.decoded /\ ~loading


\* the animation effect has its interval set
Animating == isAnimating /\ Len(qrCodes) > 1

\* C37: a tick of the animation moves currentQrIndex to the next index modulo
\* the number of images; the animation is switched on only with more than one
\* image, and stopping it keeps currentQrIndex; and once nothing but the ticks
\* changes the state, every image is shown again and again while the animation
\* runs.
C37_AnimationCycles ==
    /\ [][ /\ AnimationTick =>
                /\ Animating
                /\ currentQrIndex' = (currentQrIndex + 1) % Len(qrCodes)
           /\ (~isAnimating /\ isAnimating') => Len(qrCodes) > 1
           /\ StopAnimation => currentQrIndex' = currentQrIndex ]_vars
    /\ (<>[][AnimationTick]_vars) =>
          \A i \in 0..(MaxSeqLen - 1) :
              []<>((Animating /\ i < Len(qrCodes)) => currentQrIndex = i)
C37_Witness ==
    /\ Animating /\ encodes = EmptyBag
    /\ currentQrIndex = Len(qrCodes) - 1

=============================================================================
